---- MODULE Spec2Model ----
(***************************************************************************)
(* State-synchronisation and motion-simulation core of the orbit viewer    *)
(* (app.js, Sprint 9 revision): the object store, the periodic refresh,    *)
(* the Play/Pause simulator with its animation-frame loop, the three       *)
(* render layers and the selection / enrichment overlay.                   *)
(*                                                                         *)
(* Numbers are fixed point:                                                *)
(*   time        milliseconds                                              *)
(*   longitude   1/LngPerDeg degree                                        *)
(*   latitude    1/LatPerDeg degree                                        *)
(*   inclination 1/InclPerDeg degree                                       *)
(*   mean motion 1/MmPerRev revolution per day                             *)
(*   phase       1/TwoPi of a turn (TwoPi units = 2*pi radians)            *)
(*   sine, ratio 1/SinScale                                                *)
(* With these units the two per-frame increments of animateOrbits are      *)
(* exact integers: (mm - 1) * deltaMs for the longitude and mm * deltaMs   *)
(* for the phase.                                                          *)
(***************************************************************************)
EXTENDS Integers, Sequences, FiniteSets, TLC

----------------------------------------------------------------------------
(* Units *)

ORBIT_SPEED_FACTOR == 10
MmPerRev   == 100
InclPerDeg == 100
SinScale   == 10000
LatPerDeg  == InclPerDeg * SinScale
\* degPerSec * deltaSec * ORBIT_SPEED_FACTOR = (mm - 1) * 360 / 86400 * deltaMs / 1000 * 10
LngPerDeg  == (86400 \div 360) * (1000 \div ORBIT_SPEED_FACTOR) * MmPerRev
\* orbAngVel * deltaSec * ORBIT_SPEED_FACTOR = mm * 2pi / 86400 * deltaMs / 1000 * 10
TwoPi      == 86400 * (1000 \div ORBIT_SPEED_FACTOR) * MmPerRev
HalfPi     == TwoPi \div 4
Lat90      == 90 * LatPerDeg
Lng180     == 180 * LngPerDeg
Lng360     == 360 * LngPerDeg

----------------------------------------------------------------------------
(* Math.sin and Math.asin, piecewise linear on a 15 degree grid *)

SinSeg   == TwoPi \div 24
SinFine  == SinSeg \div SinScale
SinTab   == <<0, 2588, 5000, 7071, 8660, 9659, 10000>>

\* sin on the first quarter turn, 0 <= x <= HalfPi
SinQuarter(x) ==
  LET k == x \div SinSeg
      r == (x % SinSeg) \div SinFine
  IN  IF k >= 6 THEN SinTab[7]
      ELSE SinTab[k + 1] + ((SinTab[k + 2] - SinTab[k + 1]) * r) \div SinScale

Sin(p) ==
  LET q == p % TwoPi
  IN  IF q <= HalfPi THEN SinQuarter(q)
      ELSE IF q <= 2 * HalfPi THEN SinQuarter(2 * HalfPi - q)
      ELSE IF q <= 3 * HalfPi THEN 0 - SinQuarter(q - 2 * HalfPi)
      ELSE 0 - SinQuarter(TwoPi - q)

\* asin on 0 <= a <= SinScale, result in 0 .. HalfPi
AsinPos(a) ==
  IF a >= SinTab[7] THEN HalfPi
  ELSE LET k == CHOOSE j \in 1..6 : SinTab[j] <= a /\ a < SinTab[j + 1]
       IN  (k - 1) * SinSeg
             + (((a - SinTab[k]) * SinScale) \div (SinTab[k + 1] - SinTab[k])) * SinFine

Asin(a) == IF a >= 0 THEN AsinPos(a) ELSE 0 - AsinPos(0 - a)

\* a / b for b > 0, rounded toward zero
Quot(a, b) == IF a >= 0 THEN a \div b ELSE 0 - ((0 - a) \div b)

Min(a, b) == IF a <= b THEN a ELSE b
Max(a, b) == IF a >= b THEN a ELSE b

----------------------------------------------------------------------------
(* Optional values: <<>> is undefined / null, <<v>> is the value v *)

Undefined == <<>>
Some(v)   == <<v>>
IsDefined(o) == o # <<>>
ValueOf(o)   == o[1]

\* null for selectedSatelliteId and animationFrameId (catalogue numbers and
\* animation-frame handles are positive)
null == 0

----------------------------------------------------------------------------
(* Program constants *)

MaxAnimated        == 3000
PanelMax           == 50
NominalDeltaMs     == 16
MaxDeltaMs         == 500

(* Bounds of the model *)

MaxInFlight == 1
MaxLookups  == 1
MaxClock    == 1100
\* requests (or lookups) in flight where overlapping ones are studied
MaxOverlap  == 2
\* objects in the largest response where the side panel is studied
MaxSwarm    == 78

----------------------------------------------------------------------------
(* The positions feed: the objects the data service can deliver.  Field    *)
(* names are the feed's (lat, lon, alt, is_anomaly, ...).                  *)

Sat(id, nm, la, lo, al, an, sc, mm, inc) ==
  [norad_id |-> id, name |-> nm, lat |-> la, lon |-> lo, alt |-> al,
   is_anomaly |-> an, anomaly_score |-> sc, mean_motion |-> mm, inclination |-> inc]

\* low orbit, 15 rev/day, just west of the +180 meridian, anomalous
SatA == Sat(1, <<"COSMOS", "(1)">>, 30 * LatPerDeg, Lng180 - 10000, Some(399),
            TRUE, 9100, 15 * MmPerRev, 5160)
\* beyond geostationary, 0.5 rev/day (drifts west), equatorial, just east of -180
SatB == Sat(2, <<"SKYNET">>, 0, 800 - Lng180, Some(36500),
            FALSE, 1200, MmPerRev \div 2, 0)
\* no orbital data (mean_motion 0), anomalous, inclined
SatC == Sat(3, <<"COSMOS", "[DEB]">>, (0 - 45) * LatPerDeg, 10 * LngPerDeg, Some(35786),
            TRUE, 9100, 0, 6500)
\* stress object: retrograde 180 degree inclination, very fast, delivered south
\* of the equator
SatE == Sat(4, <<"SKYNET", "[R/B]", "(2)">>, (0 - 30) * LatPerDeg, 0, Some(0),
            TRUE, 5000, 6000 * MmPerRev, 180 * InclPerDeg)
\* stress object: half a turn per longest frame, starting on the equator
SatF == Sat(6, <<"COSMOS">>, 0, 0, Some(0),
            FALSE, 0, 8640 * MmPerRev, 90 * InclPerDeg)
\* malformed: an anomalous object delivered without alt
SatM == Sat(5, <<"SKYNET", "(1)">>, 0, 0, Undefined,
            TRUE, 9900, 0, 0)

\* A response body: the listed objects followed by `filler` further objects
\* that carry no orbital data and no anomaly (mean_motion 0, is_anomaly
\* false); they are counted, not listed.
Response(sats, filler) == [satellites |-> sats, filler |-> filler]

Responses ==
  { Response(<<>>, 0),
    Response(<<SatA, SatB>>, 0),
    Response(<<SatE, SatF, SatC>>, 0),
    Response(<<SatC, SatM>>, MaxAnimated),
    Response(<<SatA>>, MaxAnimated - 2),
    Response(<<SatA>>, MaxAnimated - 1),
    Response(<<SatA>>, MaxAnimated) }

\* A crowded feed: n objects without orbital data, two in three of them
\* anomalous, with five score levels so that scores tie in and across the
\* two kinds.
SwarmSat(i) ==
  Sat(100 + i, <<"COSMOS">>, 0, 0, Some(500), i % 3 # 0, ((i * 7) % 5) * 1000, 0, 0)

Swarm(n) == [i \in 1..n |-> SwarmSat(i)]

\* none, two, exactly PanelMax and more than PanelMax anomalous objects
SwarmResponses ==
  { Response(Swarm(n), 0) : n \in {0, 3, MaxSwarm - 3, MaxSwarm} }

\* time between two display frames: the longest gap integrated as is, and a
\* gap that is replaced by the nominal one
Gaps == {MaxDeltaMs, MaxDeltaMs + 100}

\* the data-filter values of the page's filter buttons
Filters == {"ALL", "LEO", "MEO", "GEO", "ANOMALIES", "TOP10"}
Owners  == {"", "US"}
Types   == {"", "PAYLOAD"}

\* the value of the query parameter key of a request URL ("" when the URL
\* does not carry it)
QueryParam(url, key) ==
  IF \E i \in 1..Len(url) : url[i][1] = key
    THEN url[CHOOSE i \in 1..Len(url) : url[i][1] = key][2]
    ELSE ""

\* The data service (server side, /api/positions): a catalogue of two
\* objects, both payloads owned by US, filtered by the query.  LEO is the
\* band below 2000 km, GEO the band from 35000 km up, MEO the band between;
\* ANOMALIES and TOP10 give the flagged objects (fewer than ten here).
Catalogue == <<SatA, SatB>>

InBand(filter_type, s) ==
  CASE filter_type = "LEO" -> s.alt # <<>> /\ s.alt[1] < 2000
    [] filter_type = "MEO" -> s.alt # <<>> /\ s.alt[1] >= 2000 /\ s.alt[1] < 35000
    [] filter_type = "GEO" -> s.alt # <<>> /\ s.alt[1] >= 35000
    [] filter_type \in {"ANOMALIES", "TOP10"} -> s.is_anomaly
    [] OTHER -> TRUE

Select(filter_type, s) ==
  LET F[i \in 0..Len(s)] ==
        IF i = 0 THEN <<>>
        ELSE IF InBand(filter_type, s[i]) THEN Append(F[i - 1], s[i]) ELSE F[i - 1]
  IN  F[Len(s)]

\* the response bodies the service can give to the request url
Serve(url) == { Response(Select(QueryParam(url, "filter_type"), Catalogue), 0) }

----------------------------------------------------------------------------
(* State *)

VARIABLES
  currentFilter,        \* orbit-class filter sent as filter_type
  ownerVal,             \* value of the owner dropdown ("" = unset)
  typeVal,              \* value of the object-type dropdown ("" = unset)
  showVectors,
  selectedSatelliteId,
  currentData,          \* [sats: the listed objects, filler: count of the others]
  isPlaying,
  animationFrameId,
  lastFrameTime,
  pointsData,           \* markers layer, as last pushed to the globe
  pathsData,            \* vectors layer
  ringsData,            \* rings layer
  pointsPaint,          \* radius and colour of each listed marker, as last drawn
  pathsPaint,           \* colour of each listed vector, as last drawn
  statusText,
  anomaliesList,        \* side panel entries (data-* attributes of each item)
  wikiModal,            \* overlay display: "none" or "block"
  wikiTitle,
  wikiContent,
  requests,             \* positions requests in flight (their URLs)
  lookups,              \* enrichment lookups in flight (their cleaned names)
  rafPending,           \* handles of the animation frames requested and not yet run
  now,                  \* performance.now()
  alertMsg,             \* alert raised by the last event ("" = none)
  pointOfView           \* camera move commanded by the last event (Undefined = none)

vars == <<currentFilter, ownerVal, typeVal, showVectors, selectedSatelliteId,
          currentData, isPlaying, animationFrameId, lastFrameTime, pointsData,
          pathsData, ringsData, pointsPaint, pathsPaint, statusText, anomaliesList, wikiModal, wikiTitle,
          wikiContent, requests, lookups, rafPending, now, alertMsg, pointOfView>>

filterVars == <<currentFilter, ownerVal, typeVal>>
simVars    == <<isPlaying, animationFrameId, lastFrameTime, rafPending>>
layerVars  == <<pointsData, pathsData, ringsData, pointsPaint, pathsPaint>>
wikiVars   == <<wikiModal, wikiTitle, wikiContent, lookups>>

----------------------------------------------------------------------------
(* Pure helpers *)

RemoveAt(s, i) == [j \in 1..(Len(s) - 1) |-> IF j < i THEN s[j] ELSE s[j + 1]]

\* the pending requests (or lookups) that can resolve next: of several equal
\* ones the first stands for all, the sequence left being the same
Pending(s) == {i \in 1..Len(s) : \A j \in 1..(i - 1) : s[j] # s[i]}

DataLength(d) == Len(d.sats) + d.filler

\* Math.log10 in 1/SinScale: exact at 1, 2, ..., 10 times a power of ten,
\* linear in between
Log10Tab == <<0, 3010, 4771, 6021, 6990, 7782, 8451, 9031, 9542, 10000>>

Log10Scaled(n) ==
  LET Dec(lo, k) ==
        LET m == n \div lo
            r == n - m * lo
        IN  k * SinScale + Log10Tab[m] + ((Log10Tab[m + 1] - Log10Tab[m]) * r) \div lo
  IN  IF n < 10 THEN Dec(1, 0)
      ELSE IF n < 100 THEN Dec(10, 1)
      ELSE IF n < 1000 THEN Dec(100, 2)
      ELSE IF n < 10000 THEN Dec(1000, 3)
      ELSE IF n < 100000 THEN Dec(10000, 4)
      ELSE 5 * SinScale

\* Math.log10(altKm + 1) / 5; NaN (Undefined) for an undefined altitude
visualAltitude(altKm) ==
  IF IsDefined(altKm) THEN Some(Log10Scaled(ValueOf(altKm) + 1) \div 5) ELSE Undefined

\* fetchData's mapping of one feed object to a point (s.x || 0.0 defaults)
ToPoint(s) ==
  [lat |-> s.lat, lng |-> s.lon, altitude |-> s.alt, is_anomaly |-> s.is_anomaly,
   anomaly_score |-> s.anomaly_score, name |-> s.name, norad_id |-> s.norad_id,
   mean_motion |-> s.mean_motion, inclination |-> s.inclination,
   _orbPhase |-> Undefined]

ToRing(s) == [lat |-> s.lat, lng |-> s.lon, altitude |-> s.alt]

\* s.filter(function(x) { return x.is_anomaly; })
AnomaliesOf(s) ==
  LET F[i \in 0..Len(s)] ==
        IF i = 0 THEN <<>>
        ELSE IF s[i].is_anomaly THEN Append(F[i - 1], s[i]) ELSE F[i - 1]
  IN  F[Len(s)]

PathOf(d) ==
  [coords |-> << <<d.lat, d.lng, Some(0)>>, <<d.lat, d.lng, visualAltitude(d.altitude)>> >>,
   norad_id |-> d.norad_id, is_anomaly |-> d.is_anomaly]

NoPaths == [paths |-> <<>>, filler |-> 0]

\* faulty variant: the paths are built whatever the toggle says
buildPathsDataIgnoresToggle(points, vectorsOn) ==
  [paths |-> [i \in 1..Len(points.sats) |-> PathOf(points.sats[i])],
   filler |-> points.filler]

buildPathsData(points, vectorsOn) ==
  IF ~vectorsOn THEN NoPaths
  ELSE [paths |-> [i \in 1..Len(points.sats) |-> PathOf(points.sats[i])],
        filler |-> points.filler]

\* the comparator given to sort: (a, b) -> b.anomaly_score - a.anomaly_score
ByScore(a, b) == b.anomaly_score - a.anomaly_score

\* faulty variant: of two objects the comparator calls equal, the later one
\* of the collection goes first
SortByScoreTiesReversed(s) ==
  LET n == Len(s)
      rank == [k \in 1..n |->
                 1 + Cardinality({m \in 1..n :
                       \/ ByScore(s[m], s[k]) < 0
                       \/ ByScore(s[m], s[k]) = 0 /\ m > k})]
  IN  [j \in 1..n |-> s[CHOOSE k \in 1..n : rank[k] = j]]

\* anomalies.slice().sort(comparator): Array.prototype.sort is stable, so an
\* object's place is the number of objects the comparator puts before it
\* plus the number of equal ones that precede it in the array
SortByScore(s) ==
  LET n == Len(s)
      rank == [k \in 1..n |->
                 1 + Cardinality({m \in 1..n :
                       \/ ByScore(s[m], s[k]) < 0
                       \/ ByScore(s[m], s[k]) = 0 /\ m < k})]
  IN  [j \in 1..n |-> s[CHOOSE k \in 1..n : rank[k] = j]]

\* one side-panel item: the data-* attributes written into the markup and
\* parsed back by the item's click handler (number -> text -> parseFloat /
\* parseInt is exact for the finite numbers written)
PanelItem(p) ==
  [lat |-> p.lat, lng |-> p.lng, altitude |-> p.altitude,
   norad_id |-> p.norad_id, name |-> p.name]

\* s.alt.toFixed(0) and s.anomaly_score.toFixed(4) throw on an undefined value
PanelThrows(anomalies) == \E i \in 1..Len(anomalies) : ~IsDefined(anomalies[i].altitude)

buildAnomaliesPanel(anomalies) ==
  LET sorted == SortByScore(anomalies)
      top    == SubSeq(sorted, 1, Min(PanelMax, Len(sorted)))
  IN  [i \in 1..Len(top) |-> PanelItem(top[i])]

\* the accessors the globe evaluates for each object when a layer is drawn;
\* selected is the value of selectedSatelliteId at that moment
pointRadius(d, selected) ==
  IF d.norad_id = selected THEN 18 ELSE IF d.is_anomaly THEN 15 ELSE 10

pointColor(d, selected) ==
  IF d.norad_id = selected THEN "COLOR_SELECTED"
  ELSE IF d.is_anomaly THEN "COLOR_ANOMALY" ELSE "COLOR_NORMAL"

pathColor(d, selected) ==
  IF d.norad_id = selected THEN "COLOR_SELECTED"
  ELSE IF d.is_anomaly THEN "PATH_ANOMALY" ELSE "PATH_NORMAL"

\* myGlobe.pointsData(points): every marker drawn anew
DrawPoints(points, selected) ==
  [i \in 1..Len(points.sats) |->
     [radius |-> pointRadius(points.sats[i], selected),
      color  |-> pointColor(points.sats[i], selected)]]

\* myGlobe.pathsData(paths): every vector drawn anew
DrawPaths(paths, selected) ==
  [i \in 1..Len(paths.paths) |-> pathColor(paths.paths[i], selected)]

\* faulty variant: owner and object_type are sent even when empty
UrlAllParams(f, o, t) ==
  << <<"filter_type", f>>, <<"owner", o>>, <<"object_type", t>> >>

\* the request URL built by fetchData, as the list of its query parameters:
\* filter_type always, owner and object_type when their dropdown value is
\* not empty (the values used are made of unreserved characters, which
\* encodeURIComponent leaves as they are)
Url(f, o, t) ==
  << <<"filter_type", f>> >>
    \o (IF o # "" THEN << <<"owner", o>> >> ELSE <<>>)
    \o (IF t # "" THEN << <<"object_type", t>> >> ELSE <<>>)

\* requestAnimationFrame's return value: a handle distinct from every live one
NewHandle(pending, held) ==
  CHOOSE n \in 1..(Cardinality(pending) + 2) :
    /\ n \notin pending /\ n # held
    /\ \A m \in 1..(n - 1) : m \in pending \/ m = held

----------------------------------------------------------------------------
(* Initial state: the script has run to its end (fetchData() issued once,   *)
(* the refresh timer armed)                                                *)

\* faulty variant: the callback stays scheduled
cancelAnimationFrameNoop(pending, id) == pending

\* cancelAnimationFrame(animationFrameId): the callback registered under the
\* handle is taken off the frame queue (guarded by animationFrameId !== null,
\* which no pending handle equals)
cancelAnimationFrame(pending, id) == pending \ {id}

EmptyData == [sats |-> <<>>, filler |-> 0]

Init ==
  /\ currentFilter = "ALL"
  /\ ownerVal = ""
  /\ typeVal = ""
  /\ showVectors = TRUE
  /\ selectedSatelliteId = null
  /\ currentData = EmptyData
  /\ isPlaying = FALSE
  /\ animationFrameId = null
  /\ lastFrameTime = Undefined
  /\ pointsData = EmptyData
  /\ pathsData = NoPaths
  /\ ringsData = <<>>
  /\ pointsPaint = <<>>
  /\ pathsPaint = <<>>
  /\ statusText = ""
  /\ anomaliesList = <<>>
  /\ wikiModal = "none"
  /\ wikiTitle = <<>>
  /\ wikiContent = [kind |-> "init", about |-> <<>>]
  /\ requests = <<Url("ALL", "", "")>>
  /\ lookups = <<>>
  /\ rafPending = {}
  /\ now = 0
  /\ alertMsg = ""
  /\ pointOfView = Undefined

----------------------------------------------------------------------------
(* Refresh: fetchData *)

\* fetchData up to its first await: the URL is built from the filter state
\* as it is now and the request is sent
\* faulty variant: the request is built from the filter state of the start
SendRequestInitialFilter == Append(requests, Url("ALL", "", ""))

SendRequest == Append(requests, Url(currentFilter, ownerVal, typeVal))

\* faulty variant: the timer holds back after a failed attempt
TimerFiresBacksOff ==
  /\ statusText # "Connection lost"
  /\ requests' = SendRequest
  /\ alertMsg' = ""
  /\ pointOfView' = Undefined
  /\ UNCHANGED <<filterVars, showVectors, selectedSatelliteId, currentData, simVars,
                 layerVars, statusText, anomaliesList, wikiVars, now>>

\* setInterval(fetchData, REFRESH_MS)
TimerFires ==
  /\ requests' = SendRequest
  /\ alertMsg' = ""
  /\ pointOfView' = Undefined
  /\ UNCHANGED <<filterVars, showVectors, selectedSatelliteId, currentData, simVars,
                 layerVars, statusText, anomaliesList, wikiVars, now>>

\* faulty variant: a failed refresh empties the display
FetchFailsClears(i) ==
  /\ requests' = RemoveAt(requests, i)
  /\ statusText' = "Connection lost"
  /\ currentData' = [sats |-> <<>>, filler |-> 0]
  /\ pointsData' = currentData'
  /\ ringsData' = <<>>
  /\ pathsData' = [paths |-> <<>>, filler |-> 0]
  /\ pointsPaint' = <<>>
  /\ pathsPaint' = <<>>
  /\ alertMsg' = ""
  /\ pointOfView' = Undefined
  /\ UNCHANGED <<filterVars, showVectors, selectedSatelliteId, simVars,
                 anomaliesList, wikiVars, now>>

\* the fetch rejects, or the response is not ok: the catch block
FetchFails(i) ==
  /\ requests' = RemoveAt(requests, i)
  /\ statusText' = "Connection lost"
  /\ alertMsg' = ""
  /\ pointOfView' = Undefined
  /\ UNCHANGED <<filterVars, showVectors, selectedSatelliteId, currentData, simVars,
                 layerVars, anomaliesList, wikiVars, now>>

\* the object of the current collection with catalogue number id, if any
Previous(id) ==
  LET ks == {k \in 1..Len(currentData.sats) : currentData.sats[k].norad_id = id}
  IN  IF ks = {} THEN Undefined ELSE Some(currentData.sats[CHOOSE k \in ks : TRUE])

\* faulty variant: an incremental merge that keeps the phase of the objects
\* already in the collection
RefreshedDataKeepsPhase(data) ==
  [sats |-> [i \in 1..Len(data.satellites) |->
               LET p == ToPoint(data.satellites[i])
                   o == Previous(p.norad_id)
               IN  IF IsDefined(o) THEN [p EXCEPT !._orbPhase = ValueOf(o)._orbPhase] ELSE p],
   filler |-> data.filler]

\* faulty variant: an incremental merge that keeps the animated position of
\* the objects already in the collection
RefreshedDataKeepsPosition(data) ==
  [sats |-> [i \in 1..Len(data.satellites) |->
               LET p == ToPoint(data.satellites[i])
                   o == Previous(p.norad_id)
               IN  IF IsDefined(o)
                     THEN [p EXCEPT !.lat = ValueOf(o).lat, !.lng = ValueOf(o).lng]
                     ELSE p],
   filler |-> data.filler]

\* points = data.satellites.map(...); currentData = points; delete _orbPhase
RefreshedData(data) ==
  LET points == [i \in 1..Len(data.satellites) |-> ToPoint(data.satellites[i])]
  IN  [sats |-> [i \in 1..Len(points) |-> [points[i] EXCEPT !._orbPhase = Undefined]],
       filler |-> data.filler]

\* faulty variant: a ring for every object, anomalous or not
RingsOfAll(data) == [i \in 1..Len(data.satellites) |-> ToRing(data.satellites[i])]

RingsOf(data) ==
  LET anomalies == AnomaliesOf(data.satellites)
  IN  [i \in 1..Len(anomalies) |-> ToRing(anomalies[i])]

\* faulty variants of the guard: the ceiling itself admitted, and the ceiling
\* one too low
OverCapacityStrict(n)   == n > MaxAnimated
OverCapacityOffByOne(n) == n + 1 >= MaxAnimated

\* the performance guard of the simulator
OverCapacity(n) == n >= MaxAnimated

\* faulty variant: no forced stop (the refresh as it was before the simulator)
StopOnRefreshNever(playing, n) == FALSE

\* faulty variant: the selection is cleared when its object is gone
SelectionRevalidated(points) ==
  IF \E k \in 1..Len(points.sats) : points.sats[k].norad_id = selectedSatelliteId
    THEN selectedSatelliteId ELSE null

\* faulty variant: every refresh stops a running simulator
StopOnRefreshAlways(playing, n) == playing

\* if (isPlaying && currentData.length >= 3000): the forced stop
StopOnRefresh(playing, n) == playing /\ OverCapacity(n)

\* fetchData never assigns selectedSatelliteId: the selection is carried over
\* to the new collection as it is
SelectionAfterRefresh(points) == selectedSatelliteId

\* the response is ok: the body of the try block after the awaits
FetchSucceeds(i, data) ==
  LET points        == RefreshedData(data)
      anomalyPoints == AnomaliesOf(points.sats)
      thrown        == PanelThrows(anomalyPoints)
      stop          == ~thrown /\ StopOnRefresh(isPlaying, DataLength(points))
  IN  /\ requests' = RemoveAt(requests, i)
      /\ currentData' = points
      /\ pointsData' = currentData'
      /\ ringsData' = RingsOf(data)
      /\ pathsData' = buildPathsData(currentData', showVectors)
      /\ pointsPaint' = DrawPoints(currentData', selectedSatelliteId)
      /\ pathsPaint' = DrawPaths(pathsData', selectedSatelliteId)
      /\ IF thrown
           THEN /\ statusText' = "Connection lost"
                /\ UNCHANGED anomaliesList
           ELSE /\ statusText' = "Live"
                /\ anomaliesList' = buildAnomaliesPanel(anomalyPoints)
      /\ IF stop
           THEN /\ isPlaying' = FALSE
                /\ animationFrameId' = null
                /\ rafPending' = cancelAnimationFrame(rafPending, animationFrameId)
                /\ lastFrameTime' = Undefined
           ELSE UNCHANGED simVars
      /\ selectedSatelliteId' = SelectionAfterRefresh(points)
      /\ alertMsg' = ""
      /\ pointOfView' = Undefined
      /\ UNCHANGED <<filterVars, showVectors, wikiVars, now>>

----------------------------------------------------------------------------
(* Filter controller *)

\* faulty variant: the edit is kept for the next timer period, no request
\* of its own
FilterClickDeferred(f) ==
  /\ currentFilter' = f
  /\ alertMsg' = ""
  /\ pointOfView' = Undefined
  /\ UNCHANGED <<ownerVal, typeVal, showVectors, selectedSatelliteId, currentData,
                 simVars, layerVars, statusText, anomaliesList, wikiVars, requests, now>>

\* an orbit-class button
FilterClick(f) ==
  /\ currentFilter' = f
  /\ requests' = Append(requests, Url(f, ownerVal, typeVal))
  /\ alertMsg' = ""
  /\ pointOfView' = Undefined
  /\ UNCHANGED <<ownerVal, typeVal, showVectors, selectedSatelliteId, currentData,
                 simVars, layerVars, statusText, anomaliesList, wikiVars, now>>

\* the owner dropdown shows another value
OwnerChange(o) ==
  /\ o # ownerVal
  /\ ownerVal' = o
  /\ requests' = Append(requests, Url(currentFilter, o, typeVal))
  /\ alertMsg' = ""
  /\ pointOfView' = Undefined
  /\ UNCHANGED <<currentFilter, typeVal, showVectors, selectedSatelliteId, currentData,
                 simVars, layerVars, statusText, anomaliesList, wikiVars, now>>

\* the object-type dropdown shows another value
TypeChange(t) ==
  /\ t # typeVal
  /\ typeVal' = t
  /\ requests' = Append(requests, Url(currentFilter, ownerVal, t))
  /\ alertMsg' = ""
  /\ pointOfView' = Undefined
  /\ UNCHANGED <<currentFilter, ownerVal, showVectors, selectedSatelliteId, currentData,
                 simVars, layerVars, statusText, anomaliesList, wikiVars, now>>

\* faulty variant: a generation check, only the newest request's response
\* is applied
StillWantedIfNewest(i) == i = Len(requests)

\* fetchData applies whatever response its own await returns: nothing
\* between the await and the assignments compares the request with the
\* filter state or with later requests
StillWanted(i) == TRUE

\* request i is answered with data
FetchServed(i, data) ==
  IF StillWanted(i)
    THEN FetchSucceeds(i, data)
    ELSE /\ requests' = RemoveAt(requests, i)
         /\ alertMsg' = ""
         /\ pointOfView' = Undefined
         /\ UNCHANGED <<filterVars, showVectors, selectedSatelliteId, currentData, simVars,
                        layerVars, statusText, anomaliesList, wikiVars, now>>

----------------------------------------------------------------------------
(* Vector toggle *)

ToggleVectors ==
  /\ showVectors' = ~showVectors
  /\ pathsData' = buildPathsData(currentData, ~showVectors)
  /\ pointsPaint' = DrawPoints(pointsData, selectedSatelliteId)
  /\ pathsPaint' = DrawPaths(pathsData', selectedSatelliteId)
  /\ alertMsg' = ""
  /\ pointOfView' = Undefined
  /\ UNCHANGED <<filterVars, selectedSatelliteId, currentData, simVars, pointsData,
                 ringsData, statusText, anomaliesList, wikiVars, requests, now>>

----------------------------------------------------------------------------
(* Motion simulator *)

\* the Play / Pause button
\* faulty variant: the last-frame time outlives the pause
PlayClickKeepsLastFrame ==
  IF ~isPlaying
    THEN IF OverCapacity(DataLength(currentData))
           THEN /\ alertMsg' = "capacity"
                /\ pointOfView' = Undefined
                /\ UNCHANGED simVars
           ELSE LET h == NewHandle(rafPending, animationFrameId)
                IN  /\ isPlaying' = TRUE
                    /\ lastFrameTime' = IF IsDefined(lastFrameTime) THEN lastFrameTime
                                                                    ELSE Some(now)
                    /\ animationFrameId' = h
                    /\ rafPending' = rafPending \cup {h}
                    /\ alertMsg' = ""
                    /\ pointOfView' = Undefined
    ELSE /\ isPlaying' = FALSE
         /\ animationFrameId' = null
         /\ rafPending' = cancelAnimationFrame(rafPending, animationFrameId)
         /\ alertMsg' = ""
         /\ pointOfView' = Undefined
         /\ UNCHANGED lastFrameTime

\* faulty variant: Play starts the simulator without requesting a frame
PlayClickNoFrame ==
  IF ~isPlaying
    THEN IF OverCapacity(DataLength(currentData))
           THEN /\ alertMsg' = "capacity"
                /\ pointOfView' = Undefined
                /\ UNCHANGED simVars
           ELSE /\ isPlaying' = TRUE
                /\ lastFrameTime' = Some(now)
                /\ alertMsg' = ""
                /\ pointOfView' = Undefined
                /\ UNCHANGED <<animationFrameId, rafPending>>
    ELSE /\ isPlaying' = FALSE
         /\ animationFrameId' = null
         /\ rafPending' = cancelAnimationFrame(rafPending, animationFrameId)
         /\ lastFrameTime' = Undefined
         /\ alertMsg' = ""
         /\ pointOfView' = Undefined

PlayClick ==
  IF ~isPlaying
    THEN IF OverCapacity(DataLength(currentData))
           THEN /\ alertMsg' = "capacity"
                /\ pointOfView' = Undefined
                /\ UNCHANGED simVars
           ELSE LET h == NewHandle(rafPending, animationFrameId)
                IN  /\ isPlaying' = TRUE
                    /\ lastFrameTime' = Some(now)
                    /\ animationFrameId' = h
                    /\ rafPending' = rafPending \cup {h}
                    /\ alertMsg' = ""
                    /\ pointOfView' = Undefined
    ELSE /\ isPlaying' = FALSE
         /\ animationFrameId' = null
         /\ rafPending' = cancelAnimationFrame(rafPending, animationFrameId)
         /\ lastFrameTime' = Undefined
         /\ alertMsg' = ""
         /\ pointOfView' = Undefined

Play ==
  /\ PlayClick
  /\ UNCHANGED <<filterVars, showVectors, selectedSatelliteId, currentData, layerVars,
                 statusText, anomaliesList, wikiVars, requests, now>>

\* faulty variant: the gap is replaced only above one second
ClampDeltaAboveOneSecond(deltaMs) ==
  IF deltaMs > 2 * MaxDeltaMs THEN NominalDeltaMs ELSE deltaMs

\* faulty variant: the gap is integrated whatever its length
ClampDeltaNever(deltaMs) == deltaMs

\* if (deltaSec > 0.5) deltaSec = 0.016
ClampDelta(deltaMs) == IF deltaMs > MaxDeltaMs THEN NominalDeltaMs ELSE deltaMs

\* faulty variant: only the eastward wrap
WrapLngEastOnly(lng) == IF lng > Lng180 THEN lng - Lng360 ELSE lng

\* Wrap longitude to [-180, 180]
WrapLng(lng) ==
  LET a == IF lng > Lng180 THEN lng - Lng360 ELSE lng
  IN  IF a < 0 - Lng180 THEN a + Lng360 ELSE a

\* faulty variant: only the upper clamp
ClampLatUpperOnly(lat) == IF lat > Lat90 THEN Lat90 ELSE lat

\* Clamp latitude to valid range
ClampLat(lat) == IF lat > Lat90 THEN Lat90 ELSE IF lat < 0 - Lat90 THEN 0 - Lat90 ELSE lat

\* Initialise phase from current latitude and inclination
InitPhase(d) ==
  IF d.inclination > 0
    THEN Asin(Max(0 - SinScale, Min(SinScale, Quot(d.lat, d.inclination))))
    ELSE 0

\* Keep phase bounded
WrapPhase(p) == IF p > TwoPi THEN p - TwoPi ELSE p

\* faulty variant: the Earth's own turn is not subtracted
LngDriftNoEarthRotation(mm, deltaMs) == mm * deltaMs

\* degPerSec * deltaSec * ORBIT_SPEED_FACTOR with degPerSec =
\* ((mm - 1) * 360.0) / 86400.0: in longitude units, with mm in hundredths of
\* a revolution per day and the step in ms, 360 * LngPerDeg * ORBIT_SPEED_FACTOR
\* = 86400 * 1000 * MmPerRev, and the product reduces to (mm - 1 rev) * ms
LngDrift(mm, deltaMs) == (mm - MmPerRev) * deltaMs

\* faulty variant: no skip of the objects without orbital data
AdvanceObjectNoSkip(d, deltaMs) ==
  LET lng    == WrapLng(d.lng + LngDrift(d.mean_motion, deltaMs))
      phase0 == IF IsDefined(d._orbPhase) THEN ValueOf(d._orbPhase) ELSE InitPhase(d)
      phase  == WrapPhase(phase0 + d.mean_motion * deltaMs)
  IN  [d EXCEPT !.lng = lng,
                !._orbPhase = Some(phase),
                !.lat = ClampLat(d.inclination * Sin(phase))]

\* the body of animateOrbits' loop for one object
AdvanceObject(d, deltaMs) ==
  IF d.mean_motion = 0 THEN d
  ELSE LET lng    == WrapLng(d.lng + LngDrift(d.mean_motion, deltaMs))
           phase0 == IF IsDefined(d._orbPhase) THEN ValueOf(d._orbPhase) ELSE InitPhase(d)
           phase  == WrapPhase(phase0 + d.mean_motion * deltaMs)
       IN  [d EXCEPT !.lng = lng,
                     !._orbPhase = Some(phase),
                     !.lat = ClampLat(d.inclination * Sin(phase))]

\* faulty variant: the tick leaves the vectors where they were
VectorsAfterTickStale(paths, points) == paths

\* if (showVectors) updateVectors(): the vectors layer across a tick
VectorsAfterTick(paths, points) ==
  IF showVectors THEN buildPathsData(points, showVectors) ELSE paths

\* faulty variant: the tick moves every ring onto its object's new position
RingsFollowMarkers(rings, points) ==
  LET moved == SelectSeq(points.sats, LAMBDA d : d.is_anomaly)
  IN  [j \in 1..Len(rings) |->
         IF j <= Len(moved)
           THEN [rings[j] EXCEPT !.lat = moved[j].lat, !.lng = moved[j].lng]
           ELSE rings[j]]

\* the rings layer across a tick: animateOrbits sets pointsData and, through
\* updateVectors, pathsData, and has no call of ringsData
RingsAfterTick(rings, points) == rings

\* a requested animation frame h runs animateOrbits(timestamp)
animateOrbits(h, timestamp) ==
  IF ~isPlaying
    THEN /\ rafPending' = rafPending \ {h}
         /\ UNCHANGED <<isPlaying, animationFrameId, lastFrameTime, currentData,
                        pointsData, pathsData, pointsPaint, pathsPaint>>
    ELSE LET last    == IF IsDefined(lastFrameTime) THEN ValueOf(lastFrameTime) ELSE timestamp
             deltaMs == ClampDelta(timestamp - last)
             moved   == [currentData EXCEPT !.sats =
                           [i \in 1..Len(currentData.sats) |->
                              AdvanceObject(currentData.sats[i], deltaMs)]]
             next    == NewHandle(rafPending \ {h}, null)
         IN  /\ lastFrameTime' = Some(timestamp)
             /\ currentData' = moved
             /\ pointsData' = currentData'
             /\ pathsData' = VectorsAfterTick(pathsData, currentData')
             /\ pointsPaint' = DrawPoints(currentData', selectedSatelliteId)
             /\ pathsPaint' = IF showVectors THEN DrawPaths(pathsData', selectedSatelliteId)
                                             ELSE pathsPaint
             /\ animationFrameId' = next
             /\ rafPending' = (rafPending \ {h}) \cup {next}
             /\ UNCHANGED isPlaying

Frame(h, gap) ==
  /\ h \in rafPending
  /\ now + gap <= MaxClock
  /\ now' = now + gap
  /\ animateOrbits(h, now + gap)
  /\ ringsData' = IF isPlaying THEN RingsAfterTick(ringsData, currentData') ELSE ringsData
  /\ alertMsg' = ""
  /\ pointOfView' = Undefined
  /\ UNCHANGED <<filterVars, showVectors, selectedSatelliteId, statusText,
                 anomaliesList, wikiVars, requests>>

----------------------------------------------------------------------------
(* Selection and enrichment *)

IsParenNumber(tok) == tok \in {"(1)", "(2)"}
IsTag(tok)         == tok \in {"[DEB]", "[R/B]"}

\* .replace(/\s*\(\d+\)\s*$/, "").replace(/\s*\[.*?\]\s*$/, "").trim()
\* on a name given as its blank-separated tokens
CleanName(name) ==
  LET a == IF Len(name) > 0 /\ IsParenNumber(name[Len(name)])
             THEN SubSeq(name, 1, Len(name) - 1) ELSE name
      tags == {j \in 1..Len(a) : IsTag(a[j])}
      first == CHOOSE j \in tags : \A m \in tags : j <= m
  IN  IF Len(a) > 0 /\ IsTag(a[Len(a)]) THEN SubSeq(a, 1, first - 1) ELSE a

Content(kind, about) == [kind |-> kind, about |-> about]

\* what a lookup can come back with: a failed fetch, a 404 / non-ok
\* response, or a summary with or without title and extract
Outcome(ok, title, extract) == [ok |-> ok, title |-> title, extract |-> extract]

WikiOutcomes(cleanName) ==
  { Outcome(FALSE, Undefined, Undefined),
    Outcome(TRUE, Some(<<"Wikipedia">> \o cleanName), Some(cleanName)) }

\* myGlobe.pointOfView({lat: d.lat, lng: d.lng, altitude:
\* visualAltitude(d.altitude || d.alt) + 0.5}, 1000): the place the camera is
\* sent to (the altitude without its constant offset 0.5)
Focus(d) == [lat |-> d.lat, lng |-> d.lng, altitude |-> visualAltitude(d.altitude)]

\* faulty variant: the selection is recorded, the layers are not drawn anew
handleSatelliteClickNoRepaint(d) ==
  /\ selectedSatelliteId' = d.norad_id
  /\ wikiTitle' = CleanName(d.name)
  /\ wikiContent' = Content("loading", <<>>)
  /\ wikiModal' = "block"
  /\ lookups' = Append(lookups, CleanName(d.name))
  /\ alertMsg' = ""
  /\ pointOfView' = Some(Focus(d))
  /\ UNCHANGED <<filterVars, showVectors, currentData, simVars, layerVars,
                 statusText, anomaliesList, requests, now>>

\* faulty variant: the click restarts the clicked object's oscillation (its
\* phase is dropped)
handleSatelliteClickDropsPhase(d) ==
  LET cleanName == CleanName(d.name)
  IN  /\ selectedSatelliteId' = d.norad_id
      /\ wikiTitle' = cleanName
      /\ wikiContent' = Content("loading", <<>>)
      /\ wikiModal' = "block"
      /\ lookups' = Append(lookups, cleanName)
      /\ currentData' = [currentData EXCEPT !.sats =
                           [i \in 1..Len(currentData.sats) |->
                              IF currentData.sats[i].norad_id = d.norad_id
                                THEN [currentData.sats[i] EXCEPT !._orbPhase = Undefined]
                                ELSE currentData.sats[i]]]
      /\ pointsData' = currentData'
      /\ pathsData' = buildPathsData(currentData', showVectors)
      /\ pointsPaint' = DrawPoints(currentData', d.norad_id)
      /\ pathsPaint' = DrawPaths(pathsData', d.norad_id)
      /\ alertMsg' = ""
      /\ pointOfView' = Some(Focus(d))
      /\ UNCHANGED <<filterVars, showVectors, simVars, ringsData,
                     statusText, anomaliesList, requests, now>>

handleSatelliteClick(d) ==
  LET cleanName == CleanName(d.name)
  IN  /\ selectedSatelliteId' = d.norad_id
      /\ wikiTitle' = cleanName
      /\ wikiContent' = Content("loading", <<>>)
      /\ wikiModal' = "block"
      /\ lookups' = Append(lookups, cleanName)
      /\ pointsData' = currentData
      /\ pathsData' = buildPathsData(currentData, showVectors)
      /\ pointsPaint' = DrawPoints(currentData, d.norad_id)
      /\ pathsPaint' = DrawPaths(pathsData', d.norad_id)
      /\ alertMsg' = ""
      /\ pointOfView' = Some(Focus(d))
      /\ UNCHANGED <<filterVars, showVectors, currentData, simVars, ringsData,
                     statusText, anomaliesList, requests, now>>

\* onPointClick: a marker of the points layer is clicked
PointClick(i) == handleSatelliteClick(pointsData.sats[i])

\* an item of the side panel is clicked
PanelClick(j) == handleSatelliteClick(anomaliesList[j])

\* faulty variant: the overlay is hidden and the selection dropped, the
\* layers are not drawn anew
WikiCloseNoRepaint ==
  /\ wikiModal = "block"
  /\ wikiModal' = "none"
  /\ selectedSatelliteId' = null
  /\ alertMsg' = ""
  /\ pointOfView' = Undefined
  /\ UNCHANGED <<filterVars, showVectors, currentData, simVars, layerVars, statusText,
                 anomaliesList, wikiTitle, wikiContent, lookups, requests, now>>

\* the overlay's close button (reachable only while the overlay is shown)
WikiClose ==
  /\ wikiModal = "block"
  /\ wikiModal' = "none"
  /\ selectedSatelliteId' = null
  /\ pointsData' = currentData
  /\ pathsData' = buildPathsData(currentData, showVectors)
  /\ pointsPaint' = DrawPoints(currentData, null)
  /\ pathsPaint' = DrawPaths(pathsData', null)
  /\ alertMsg' = ""
  /\ pointOfView' = Undefined
  /\ UNCHANGED <<filterVars, showVectors, currentData, simVars, ringsData, statusText,
                 anomaliesList, wikiTitle, wikiContent, lookups, requests, now>>

\* faulty variant: a lookup that finds nothing drops the selection
WikiResolvesDeselects(k, out) ==
  /\ lookups' = RemoveAt(lookups, k)
  /\ IF out.ok
       THEN /\ wikiTitle' = IF IsDefined(out.title) THEN ValueOf(out.title) ELSE lookups[k]
            /\ wikiContent' = Content("extract", ValueOf(out.extract))
            /\ UNCHANGED <<selectedSatelliteId, wikiModal>>
       ELSE /\ wikiContent' = Content("nodata", <<>>)
            /\ selectedSatelliteId' = null
            /\ wikiModal' = "none"
            /\ UNCHANGED wikiTitle
  /\ alertMsg' = ""
  /\ pointOfView' = Undefined
  /\ UNCHANGED <<filterVars, showVectors, currentData, simVars,
                 layerVars, statusText, anomaliesList, requests, now>>

\* faulty variant: only the newest lookup's response is shown, and only
\* while the overlay is open
WikiResolvesIfCurrent(k, out) ==
  /\ lookups' = RemoveAt(lookups, k)
  /\ IF out.ok /\ k = Len(lookups) /\ wikiModal = "block"
       THEN /\ wikiTitle' = IF IsDefined(out.title) THEN ValueOf(out.title) ELSE lookups[k]
            /\ wikiContent' = Content("extract", ValueOf(out.extract))
       ELSE UNCHANGED <<wikiTitle, wikiContent>>
  /\ alertMsg' = ""
  /\ pointOfView' = Undefined
  /\ UNCHANGED <<filterVars, showVectors, selectedSatelliteId, currentData, simVars,
                 layerVars, statusText, anomaliesList, wikiModal, requests, now>>

\* faulty variant: a response that arrives re-opens the overlay
WikiResolvesShowsOverlay(k, out) ==
  /\ lookups' = RemoveAt(lookups, k)
  /\ IF out.ok
       THEN /\ wikiTitle' = IF IsDefined(out.title) THEN ValueOf(out.title) ELSE lookups[k]
            /\ wikiContent' = IF IsDefined(out.extract)
                                THEN Content("extract", ValueOf(out.extract))
                                ELSE Content("nodata", <<>>)
       ELSE /\ wikiContent' = Content("nodata", <<>>)
            /\ UNCHANGED wikiTitle
  /\ wikiModal' = "block"
  /\ alertMsg' = ""
  /\ pointOfView' = Undefined
  /\ UNCHANGED <<filterVars, showVectors, selectedSatelliteId, currentData, simVars,
                 layerVars, statusText, anomaliesList, requests, now>>

\* fetchWikipediaInfo after its await
WikiResolves(k, out) ==
  /\ lookups' = RemoveAt(lookups, k)
  /\ IF out.ok
       THEN /\ wikiTitle' = IF IsDefined(out.title) THEN ValueOf(out.title) ELSE lookups[k]
            /\ wikiContent' = IF IsDefined(out.extract)
                                THEN Content("extract", ValueOf(out.extract))
                                ELSE Content("nodata", <<>>)
       ELSE /\ wikiContent' = Content("nodata", <<>>)
            /\ UNCHANGED wikiTitle
  /\ alertMsg' = ""
  /\ pointOfView' = Undefined
  /\ UNCHANGED <<filterVars, showVectors, selectedSatelliteId, currentData, simVars,
                 layerVars, statusText, anomaliesList, wikiModal, requests, now>>

\* fetchWikipediaInfo's catch block: the fetch itself rejects
WikiRejects(k) ==
  /\ lookups' = RemoveAt(lookups, k)
  /\ wikiContent' = Content("nodata", <<>>)
  /\ alertMsg' = ""
  /\ pointOfView' = Undefined
  /\ UNCHANGED <<filterVars, showVectors, selectedSatelliteId, currentData, simVars,
                 layerVars, statusText, anomaliesList, wikiModal, wikiTitle, requests, now>>

----------------------------------------------------------------------------
(* Specification *)

\* requests and lookups in flight are capped at MaxInFlight and MaxLookups
Next ==
  \/ Len(requests) < MaxInFlight /\ TimerFires
  \/ \E i \in Pending(requests) : FetchFails(i)
  \/ \E i \in Pending(requests) : \E data \in Responses : FetchSucceeds(i, data)
  \/ ToggleVectors
  \/ Play
  \/ \E h \in rafPending : \E gap \in Gaps : Frame(h, gap)
  \/ \E i \in 1..Len(pointsData.sats) : Len(lookups) < MaxLookups /\ PointClick(i)
  \/ \E j \in 1..Len(anomaliesList) : Len(lookups) < MaxLookups /\ PanelClick(j)
  \/ WikiClose
  \/ \E k \in Pending(lookups) : \E out \in WikiOutcomes(lookups[k]) : WikiResolves(k, out)
  \/ \E k \in Pending(lookups) : WikiRejects(k)

Spec == Init /\ [][Next]_vars

\* The filter controller and the refresh on their own: filter edits and the
\* timer issue requests, up to MaxOverlap in flight, and the service answers
\* every one of them, in any order.
NextFilter ==
  \/ Len(requests) < MaxOverlap /\ TimerFires
  \/ \E f \in Filters : Len(requests) < MaxOverlap /\ FilterClick(f)
  \/ \E o \in Owners : Len(requests) < MaxOverlap /\ OwnerChange(o)
  \/ \E t \in Types : Len(requests) < MaxOverlap /\ TypeChange(t)
  \/ \E i \in Pending(requests) : \E data \in Serve(requests[i]) : FetchServed(i, data)

SpecFilter == Init /\ [][NextFilter]_vars

\* The refresh loop under its scheduling: the interval timer, the controls,
\* and the data service, which may fail any request.  The timer comes round
\* again and again (setInterval), and every request sent is answered or
\* rejected in the end (the awaited fetch settles).
TimerStep == Len(requests) < MaxOverlap /\ TimerFires

Settles ==
  \/ \E i \in Pending(requests) : FetchFails(i)
  \/ \E i \in Pending(requests) : \E data \in Serve(requests[i]) : FetchServed(i, data)

NextLive ==
  \/ TimerStep
  \/ \E f \in {"ALL", "LEO"} : Len(requests) < MaxOverlap /\ FilterClick(f)
  \/ \E o \in Owners : Len(requests) < MaxOverlap /\ OwnerChange(o)
  \/ \E t \in Types : Len(requests) < MaxOverlap /\ TypeChange(t)
  \/ \E i \in Pending(requests) : FetchFails(i)
  \/ \E i \in Pending(requests) : \E data \in Serve(requests[i]) : FetchServed(i, data)

SpecLive == Init /\ [][NextLive]_vars /\ WF_vars(TimerStep) /\ WF_vars(Settles)

\* The longitude arithmetic of a tick on its own: a feed of three objects
\* that differ in mean motion only (half a revolution a day, one, fifteen),
\* delivered on the prime meridian or just west of +180, and frames that
\* come a quarter of a second, half a second or a whole second apart.
DriftSat(i, mm, lo) == Sat(200 + i, <<"COSMOS">>, 0, lo, Some(500), FALSE, 0, mm, 0)

DriftResponses ==
  { Response(<<DriftSat(1, MmPerRev \div 2, lo), DriftSat(2, MmPerRev, lo),
               DriftSat(3, 15 * MmPerRev, lo)>>, 0) : lo \in {0, Lng180 - 10000} }

DriftGaps == {MaxDeltaMs \div 2, MaxDeltaMs, 2 * MaxDeltaMs}

NextDrift ==
  \/ Len(requests) < MaxInFlight /\ TimerFires
  \/ \E i \in Pending(requests) : \E data \in DriftResponses : FetchSucceeds(i, data)
  \/ Play
  \/ \E h \in rafPending : \E gap \in DriftGaps : Frame(h, gap)

SpecDrift == Init /\ [][NextDrift]_vars

\* The same, with time that passes while the simulator is STOPPED: no frame
\* is requested then, and performance.now() goes on.
PauseGaps == {MaxDeltaMs \div 2}

Idle(gap) ==
  /\ ~isPlaying
  /\ now + gap <= MaxClock
  /\ now' = now + gap
  /\ UNCHANGED <<filterVars, showVectors, selectedSatelliteId, currentData, simVars,
                 layerVars, statusText, anomaliesList, wikiVars, requests, alertMsg,
                 pointOfView>>

NextPause ==
  \/ Len(requests) < MaxInFlight /\ TimerFires
  \/ \E i \in Pending(requests) : \E data \in DriftResponses : FetchSucceeds(i, data)
  \/ Play
  \/ \E h \in rafPending : \E gap \in DriftGaps : Frame(h, gap)
  \/ \E gap \in PauseGaps : Idle(gap)

SpecPause == Init /\ [][NextPause]_vars

\* Selection and enrichment with up to MaxOverlap lookups in flight, on the
\* collections the service gives for the startup filter state, animated or
\* not.
NextSelect ==
  \/ Len(requests) < MaxInFlight /\ TimerFires
  \/ \E i \in Pending(requests) : \E data \in Serve(requests[i]) : FetchSucceeds(i, data)
  \/ Play
  \/ ToggleVectors
  \/ \E h \in rafPending : Frame(h, MaxDeltaMs)
  \/ \E i \in 1..Len(pointsData.sats) : Len(lookups) < MaxOverlap /\ PointClick(i)
  \/ \E j \in 1..Len(anomaliesList) : Len(lookups) < MaxOverlap /\ PanelClick(j)
  \/ WikiClose
  \/ \E k \in Pending(lookups) : \E out \in WikiOutcomes(lookups[k]) : WikiResolves(k, out)
  \/ \E k \in Pending(lookups) : WikiRejects(k)

SpecSelect == Init /\ [][NextSelect]_vars

\* The side panel on crowded collections: refreshes, and selections made
\* from the panel's first and last entries.
NextPanel ==
  \/ Len(requests) < MaxInFlight /\ TimerFires
  \/ \E i \in Pending(requests) : FetchFails(i)
  \/ \E i \in Pending(requests) : \E data \in SwarmResponses : FetchSucceeds(i, data)
  \/ \E j \in {1, Len(anomaliesList)} :
        Len(anomaliesList) > 0 /\ Len(lookups) < MaxLookups /\ PanelClick(j)
  \/ WikiClose
  \/ \E k \in Pending(lookups) : WikiRejects(k)

SpecPanel == Init /\ [][NextPanel]_vars

----------------------------------------------------------------------------
(* Properties *)

Sats == currentData.sats
SatIndex == 1..Len(currentData.sats)
IdsOf(s) == {s[k].norad_id : k \in 1..Len(s)}
Moving(d) == d.mean_motion > 0
Ticked(d) == IsDefined(d._orbPhase)

RefreshLands == \E i \in Pending(requests) : \E data \in Responses : FetchSucceeds(i, data)
RefreshFails == \E i \in Pending(requests) : FetchFails(i)
PlayPressed  == Play /\ ~isPlaying

\* C1: after any animation tick every object's latitude lies in [-90, 90]
\* degrees, whatever its inclination, mean motion and the frame gaps, the
\* feed delivering in-domain latitudes.
C1_LatitudeInDomain ==
  \A k \in SatIndex : 0 - Lat90 <= Sats[k].lat /\ Sats[k].lat <= Lat90

\* an animated object whose inclination * sin(phase) exceeds 90 degrees in
\* magnitude and whose latitude was clamped to the bound
C1_Witness ==
  \E k \in SatIndex :
    /\ Ticked(Sats[k])
    /\ Sats[k].inclination * Sin(ValueOf(Sats[k]._orbPhase)) < 0 - Lat90
    /\ Sats[k].lat = 0 - Lat90

\* C2 as stated: after any animation tick every object's longitude lies in
\* the half-open interval (-180, 180].
C2_LongitudeHalfOpen ==
  \A k \in SatIndex : 0 - Lng180 < Sats[k].lng /\ Sats[k].lng <= Lng180

\* C2 amended: after any animation tick every object's longitude lies in the
\* closed interval [-180, 180].
C2_LongitudeClosed ==
  \A k \in SatIndex : 0 - Lng180 <= Sats[k].lng /\ Sats[k].lng <= Lng180

\* an animated object left exactly on the -180 meridian
C2_Witness ==
  \E k \in SatIndex : Ticked(Sats[k]) /\ Sats[k].lng = 0 - Lng180

\* C3: immediately after a successful refresh no object of the collection
\* carries a simulation phase.
C3_NoPhaseAfterRefresh ==
  [][RefreshLands => \A k \in 1..Len(currentData'.sats) :
                       ~IsDefined(currentData'.sats[k]._orbPhase)]_vars

\* the simulator is running, frames have run, and an object with orbital
\* data has no phase: a refresh landed after the last frame
C3_Witness ==
  /\ isPlaying /\ now > 0 /\ lastFrameTime = Some(now)
  /\ \E k \in SatIndex : Moving(Sats[k]) /\ ~Ticked(Sats[k])

C5_PlayAccepted ==
  [][(PlayPressed /\ DataLength(currentData) < MaxAnimated) =>
       /\ isPlaying'
       /\ alertMsg' = ""
       /\ rafPending' = {animationFrameId'}
       /\ animationFrameId' # null
       /\ lastFrameTime' = Some(now)]_vars

\* running on a collection of 2999 objects before any frame has run
C5_Witness ==
  /\ isPlaying /\ now = 0 /\ Cardinality(rafPending) = 1
  /\ DataLength(currentData) = MaxAnimated - 1

C7_RingsMatchAnomalies ==
  Len(ringsData) = Cardinality({k \in SatIndex : Sats[k].is_anomaly})

\* rings for some but not all objects, while animated, vectors off, an
\* object selected and the last refresh failed
C7_Witness ==
  /\ Len(ringsData) > 0 /\ Len(ringsData) < Len(Sats)
  /\ \E k \in SatIndex : Ticked(Sats[k])
  /\ ~showVectors /\ selectedSatelliteId # null /\ statusText = "Connection lost"

\* C8: a failed refresh leaves the collection, the three layers, the
\* selection, the side panel and the simulator as they were and sets the
\* status to the connection-lost message.
C8_FailureKeepsState ==
  [][RefreshFails =>
       /\ statusText' = "Connection lost"
       /\ UNCHANGED <<currentData, pointsData, pathsData, ringsData, selectedSatelliteId,
                      anomaliesList, isPlaying, animationFrameId, lastFrameTime,
                      rafPending>>]_vars

\* the status is connection-lost while the simulator animates a non-empty
\* collection that keeps its rings and panel
C8_Witness ==
  /\ statusText = "Connection lost" /\ isPlaying /\ requests = <<>>
  /\ \E k \in SatIndex : Ticked(Sats[k])
  /\ Len(ringsData) > 0 /\ Len(anomaliesList) > 0 /\ DataLength(currentData) < MaxAnimated

\* C9: a successful refresh replaces the collection wholesale: afterwards it
\* holds exactly the objects of the response, in order, each at the position
\* the feed delivered.
C9_WholesaleReplace ==
  [][\A i \in Pending(requests) : \A data \in Responses :
       FetchSucceeds(i, data) =>
         /\ DataLength(currentData') = Len(data.satellites) + data.filler
         /\ Len(currentData'.sats) = Len(data.satellites)
         /\ \A k \in 1..Len(data.satellites) :
              /\ currentData'.sats[k].norad_id = data.satellites[k].norad_id
              /\ currentData'.sats[k].lat = data.satellites[k].lat
              /\ currentData'.sats[k].lng = data.satellites[k].lon]_vars

\* after frames ran the first object is back at the position the feed
\* delivers for it
C9_Witness ==
  /\ isPlaying /\ now > 0 /\ statusText = "Live" /\ Len(Sats) = 2 /\ currentData.filler = 0
  /\ Sats[1].norad_id = SatA.norad_id /\ Sats[1].lat = SatA.lat /\ Sats[1].lng = SatA.lon
  /\ ~Ticked(Sats[1])

\* C10 as stated: the selection is none or the catalogue number of an object
\* of the current collection, in every reachable state.
C10_SelectionPresent ==
  selectedSatelliteId = null \/ selectedSatelliteId \in IdsOf(Sats)

\* C10 amended: the selection changes only to none or to the catalogue
\* number of a marker of the current collection or of a side-panel item, and
\* a refresh leaves it as it is.
C10_SelectionChanges ==
  [][/\ selectedSatelliteId' # selectedSatelliteId =>
          \/ selectedSatelliteId' = null
          \/ selectedSatelliteId' \in IdsOf(Sats) \cup IdsOf(anomaliesList)
     /\ RefreshLands => selectedSatelliteId' = selectedSatelliteId]_vars

\* an object is selected and the collection of a later refresh does not hold it
C10_Witness ==
  /\ selectedSatelliteId # null /\ statusText = "Live"
  /\ selectedSatelliteId \notin IdsOf(Sats)

\* C11: a refresh request is in flight right after startup, and every edit of
\* the filter state (orbit class, owner, object type) issues exactly one
\* more in the same step, built from the filter state as the edit leaves
\* it; the timer's requests come on top of these.
C11_RequestOnEdit ==
  /\ requests = <<Url("ALL", "", "")>> /\ now = 0
  /\ [][/\ filterVars' # filterVars =>
             requests' = Append(requests, Url(currentFilter', ownerVal', typeVal'))
        /\ \A f \in Filters : FilterClick(f) =>
             requests' = Append(requests, Url(f, ownerVal, typeVal))
        /\ TimerFires => requests' = Append(requests, Url(currentFilter, ownerVal, typeVal))]_vars

\* the startup request still in flight and behind it the request of an
\* edit, carrying the edited orbit class
C11_Witness ==
  /\ Len(requests) = 2 /\ statusText = "" /\ currentFilter = "LEO"
  /\ requests[1] = Url("ALL", "", "")
  /\ requests[2] = Url("LEO", "", "")

\* C12: requests overlap and each response is applied when it completes,
\* whichever request it answers: a completion installs its response as the
\* collection even when a newer request is in flight or was answered
\* before.
C12_CompletionOrder ==
  [][\A i \in Pending(requests) : \A data \in Serve(requests[i]) :
       FetchServed(i, data) =>
         /\ currentData' = RefreshedData(data)
         /\ requests' = RemoveAt(requests, i)]_vars

\* all requests are answered, the orbit class is LEO, and the collection
\* shown holds an object outside LEO: the response to the request of the
\* LEO edit was applied, and an older request's response after it
C12_Witness ==
  /\ currentFilter = "LEO" /\ requests = <<>> /\ statusText = "Live"
  /\ \E k \in SatIndex : ~InBand("LEO", [alt |-> Sats[k].altitude])

LookupDone ==
  \/ \E k \in Pending(lookups) : \E out \in WikiOutcomes(lookups[k]) : WikiResolves(k, out)
  \/ \E k \in Pending(lookups) : WikiRejects(k)

NoData == Content("nodata", <<>>)

\* C13: the completion of a lookup, found or not, changes nothing but the
\* overlay's title and text; a response that is not ok and a rejected fetch
\* leave the same no-data text and the title as it was; and while a lookup
\* is in flight a marker can be selected, a refresh can complete and a
\* requested animation frame can run.
C13_LookupOnlyOverlay ==
  /\ [](lookups # <<>> =>
          /\ (Len(lookups) < MaxOverlap /\ Len(pointsData.sats) > 0) => ENABLED PointClick(1)
          /\ requests # <<>> =>
                ENABLED (\E data \in Serve(requests[1]) : FetchSucceeds(1, data))
          /\ (rafPending # {} /\ now + MaxDeltaMs <= MaxClock) =>
                ENABLED (\E h \in rafPending : Frame(h, MaxDeltaMs)))
  /\ [][/\ LookupDone =>
             UNCHANGED <<selectedSatelliteId, currentData, layerVars, simVars, filterVars,
                         showVectors, statusText, anomaliesList, wikiModal, requests, now>>
        /\ \A k \in Pending(lookups) :
             /\ WikiRejects(k) => (wikiContent' = NoData /\ wikiTitle' = wikiTitle)
             /\ \A out \in WikiOutcomes(lookups[k]) :
                  (WikiResolves(k, out) /\ ~out.ok) =>
                    (wikiContent' = NoData /\ wikiTitle' = wikiTitle)]_vars

\* the no-data text is shown for the selected object while the simulator
\* animates the collection
C13_Witness ==
  /\ wikiContent = NoData /\ wikiModal = "block" /\ lookups = <<>>
  /\ selectedSatelliteId \in IdsOf(Sats) /\ isPlaying
  /\ \E k \in SatIndex : Ticked(Sats[k])

\* C14: a lookup's response is written to the overlay when it completes,
\* whichever lookup it is and whatever the selection and the overlay's
\* display are by then: older lookups and lookups of a cleared selection
\* included.
C14_LookupCompletionOrder ==
  [][\A k \in Pending(lookups) : \A out \in WikiOutcomes(lookups[k]) :
       (WikiResolves(k, out) /\ out.ok) =>
         /\ wikiTitle' = ValueOf(out.title)
         /\ wikiContent' = Content("extract", ValueOf(out.extract))
         /\ UNCHANGED <<selectedSatelliteId, wikiModal>>]_vars

\* the second object of the collection is selected, no lookup is in
\* flight, and the overlay shows the summary of the first object's name
C14_Witness ==
  /\ Len(Sats) = 2 /\ selectedSatelliteId = Sats[2].norad_id /\ lookups = <<>>
  /\ wikiModal = "block"
  /\ wikiContent = Content("extract", CleanName(Sats[1].name))
  /\ CleanName(Sats[1].name) # CleanName(Sats[2].name)

\* position in the collection s of the object with catalogue number id
IndexOf(s, id) == CHOOSE k \in 1..Len(s) : s[k].norad_id = id

Anomalous(s) == {k \in 1..Len(s) : s[k].is_anomaly}

\* the side panel p is the ranking of the collection s
Ranked(p, s) ==
  LET at(j) == IndexOf(s, p[j].norad_id)
      score(j) == s[at(j)].anomaly_score
      listed == {at(j) : j \in 1..Len(p)}
  IN  /\ Len(p) = Min(PanelMax, Cardinality(Anomalous(s)))
      /\ \A j \in 1..Len(p) : p[j].norad_id \in IdsOf(s)
      /\ listed \subseteq Anomalous(s)
      /\ Cardinality(listed) = Len(p)
      /\ \A j \in 1..(Len(p) - 1) :
            \/ score(j) > score(j + 1)
            \/ score(j) = score(j + 1) /\ at(j) < at(j + 1)
      /\ \A k \in Anomalous(s) \ listed : \A j \in 1..Len(p) :
            \/ score(j) > s[k].anomaly_score
            \/ score(j) = s[k].anomaly_score /\ at(j) < k

\* C15: after every successful refresh the side panel lists the
\* min(PanelMax, n) highest-scoring of the n anomalous objects of the new
\* collection and nothing else, by non-increasing score, objects of equal
\* score in collection order (also at the cut); with n = 0 it is empty (the
\* placeholder).
C15_PanelRanking ==
  [][\A i \in Pending(requests) : \A data \in SwarmResponses :
       (FetchSucceeds(i, data) /\ statusText' = "Live") =>
         /\ Ranked(anomaliesList', currentData'.sats)
         /\ Anomalous(currentData'.sats) = {} => anomaliesList' = <<>>]_vars

\* a full panel cut from a collection with more than PanelMax anomalous
\* objects, its last entry tied in score with an anomalous object left out
C15_Witness ==
  /\ statusText = "Live" /\ Len(anomaliesList) = PanelMax
  /\ Cardinality(Anomalous(Sats)) > PanelMax
  /\ \E k \in Anomalous(Sats) :
        /\ Sats[k].norad_id \notin IdsOf(anomaliesList)
        /\ Sats[k].anomaly_score =
             Sats[IndexOf(Sats, anomaliesList[PanelMax].norad_id)].anomaly_score

\* what an object looks like when it is not the selected one
PlainPoint(d) ==
  [radius |-> IF d.is_anomaly THEN 15 ELSE 10,
   color  |-> IF d.is_anomaly THEN "COLOR_ANOMALY" ELSE "COLOR_NORMAL"]

PlainPath(d) == IF d.is_anomaly THEN "PATH_ANOMALY" ELSE "PATH_NORMAL"

SelectedPoint == [radius |-> 18, color |-> "COLOR_SELECTED"]

Highlighted == {i \in 1..Len(pointsPaint) : pointsPaint[i].color = "COLOR_SELECTED"}

\* the markers and vectors as drawn show the selection and nothing else
HighlightIsSelection ==
  /\ Len(pointsPaint) = Len(pointsData.sats)
  /\ Len(pathsPaint) = Len(pathsData.paths)
  /\ \A i \in 1..Len(pointsPaint) :
        pointsPaint[i] = IF pointsData.sats[i].norad_id = selectedSatelliteId
                           THEN SelectedPoint ELSE PlainPoint(pointsData.sats[i])
  /\ \A i \in 1..Len(pathsPaint) :
        pathsPaint[i] = IF pathsData.paths[i].norad_id = selectedSatelliteId
                          THEN "COLOR_SELECTED" ELSE PlainPath(pathsData.paths[i])
  /\ Cardinality(Highlighted) <= 1

\* C16: selecting an object (its marker or its panel entry) makes its
\* catalogue number the selection, and in every reachable state the markers
\* and vectors drawn in the selected colour and size are exactly those of
\* the selection, all others in their anomaly-based look: at most one
\* object is highlighted, and a second selection moves the highlight.
C16_SingleHighlight ==
  /\ []HighlightIsSelection
  /\ [][/\ \A i \in 1..Len(pointsData.sats) :
             PointClick(i) => selectedSatelliteId' = pointsData.sats[i].norad_id
        /\ \A j \in 1..Len(anomaliesList) :
             PanelClick(j) => selectedSatelliteId' = anomaliesList[j].norad_id]_vars

\* two selections in a row, both lookups still in flight: the second
\* object is the highlighted one, the first is back to its anomaly colour
C16_Witness ==
  /\ Len(lookups) = 2 /\ Len(Sats) = 2 /\ showVectors
  /\ lookups[1] = CleanName(Sats[1].name) /\ lookups[2] = CleanName(Sats[2].name)
  /\ selectedSatelliteId = Sats[2].norad_id
  /\ Highlighted = {2} /\ pathsPaint[2] = "COLOR_SELECTED"
  /\ pointsPaint[1].color = "COLOR_ANOMALY"

\* C17: closing the overlay sets the selection to none and draws the layers
\* anew: the object that was selected is back to its anomaly-based look,
\* every other marker and vector looks as before, and the collection
\* (objects, positions, phases), the data of the three layers, the filter
\* state, the vector toggle and the simulator are unchanged.
C17_ClearRepaints ==
  [][WikiClose =>
       /\ selectedSatelliteId' = null /\ wikiModal' = "none"
       /\ UNCHANGED <<currentData, pointsData, pathsData, ringsData, filterVars,
                      showVectors, simVars, statusText, anomaliesList, requests, now>>
       /\ Len(pointsPaint') = Len(pointsData.sats)
       /\ Len(pathsPaint') = Len(pathsData.paths)
       /\ \A i \in 1..Len(pointsPaint') :
            /\ pointsPaint'[i] = PlainPoint(pointsData.sats[i])
            /\ pointsData.sats[i].norad_id # selectedSatelliteId =>
                 pointsPaint'[i] = pointsPaint[i]
       /\ \A i \in 1..Len(pathsPaint') :
            /\ pathsPaint'[i] = PlainPath(pathsData.paths[i])
            /\ pathsData.paths[i].norad_id # selectedSatelliteId =>
                 pathsPaint'[i] = pathsPaint[i]]_vars

\* the overlay was closed on an animated collection: nothing is selected
\* or highlighted, the simulator still runs, the rings are in place
C17_Witness ==
  /\ selectedSatelliteId = null /\ wikiModal = "none" /\ wikiTitle # <<>>
  /\ alertMsg = "" /\ isPlaying /\ Len(ringsData) > 0 /\ Highlighted = {}
  /\ \E k \in SatIndex : Ticked(Sats[k]) /\ Sats[k].is_anomaly
  /\ Len(pathsPaint) = Len(Sats)

\* C18 as stated: a refresh attempt is all or nothing.  When it ends, either
\* the status is Live, the collection, markers, rings, vectors and side
\* panel all come from the new response and the capacity check has run (the
\* simulator does not run on MaxAnimated objects or more); or the status is
\* connection-lost and collection, layers, panel and simulator are as they
\* were.
C18_AllOrNothing ==
  [][(RefreshLands \/ RefreshFails) =>
       \/ /\ statusText' = "Live"
          /\ pointsData' = currentData'
          /\ pathsData' = buildPathsData(currentData', showVectors)
          /\ Len(ringsData') = Cardinality(Anomalous(currentData'.sats))
          /\ anomaliesList' = buildAnomaliesPanel(AnomaliesOf(currentData'.sats))
          /\ ~(isPlaying' /\ DataLength(currentData') >= MaxAnimated)
       \/ /\ statusText' = "Connection lost"
          /\ UNCHANGED <<currentData, layerVars, anomaliesList, simVars>>]_vars

\* the state the exception leaves: connection-lost shown over the new
\* collection and its rings, the side panel still listing an object that
\* is gone, and the simulator running on more than MaxAnimated objects
C18_Witness ==
  /\ statusText = "Connection lost" /\ isPlaying /\ rafPending # {}
  /\ DataLength(currentData) > MaxAnimated
  /\ \E k \in SatIndex : ~IsDefined(Sats[k].altitude)
  /\ Len(ringsData) = Len(Sats)
  /\ \E j \in 1..Len(anomaliesList) : anomaliesList[j].norad_id \notin IdsOf(Sats)

\* an animation frame runs while the simulator is running
TickRuns == isPlaying /\ \E h \in rafPending : \E gap \in Gaps : Frame(h, gap)

\* C19: a tick leaves every object whose mean motion is 0 exactly as it
\* was (latitude, longitude, no phase), whatever its inclination; such an
\* object never carries a phase.
C19_NoOrbitalDataUntouched ==
  /\ [](\A k \in SatIndex : Sats[k].mean_motion = 0 => ~Ticked(Sats[k]))
  /\ [][TickRuns =>
          /\ Len(currentData'.sats) = Len(Sats)
          /\ \A k \in SatIndex :
               Sats[k].mean_motion = 0 => currentData'.sats[k] = Sats[k]]_vars

\* after a tick that moved the other objects, an inclined object without
\* orbital data is where the feed put it, off the latitude its inclination
\* and a zero phase would give
C19_Witness ==
  \E k \in SatIndex : \E m \in SatIndex :
    /\ Ticked(Sats[m]) /\ Sats[m].lat # 0
    /\ Sats[k].mean_motion = 0 /\ Sats[k].inclination > 0
    /\ Sats[k].lat = SatC.lat /\ Sats[k].lng = SatC.lon /\ SatC.lat # 0
    /\ ~Ticked(Sats[k])

\* the tick of this step integrated deltaMs
Integrated(deltaMs) ==
  currentData'.sats = [k \in SatIndex |-> AdvanceObject(Sats[k], deltaMs)]

\* C20 as stated: a tick integrates the nominal 16 ms when it is the first
\* one after the simulator started (here: no frame has run yet, the clock
\* is still at 0) or when the gap since the previous tick exceeds 500 ms;
\* otherwise it integrates the gap.
C20_NominalOnFirstTick ==
  [][TickRuns =>
       Integrated(IF now = 0 \/ now' - now > MaxDeltaMs
                    THEN NominalDeltaMs ELSE now' - now)]_vars

\* C20 amended: Play records the time of the press as the last-frame time,
\* and every tick, the first one included, integrates the gap since the
\* last-frame time (the previous tick or the Play press) unless that gap
\* exceeds 500 ms, when it integrates the nominal 16 ms; the tick's
\* timestamp becomes the last-frame time.
C20_GapSinceLastFrameTime ==
  /\ [](isPlaying => IsDefined(lastFrameTime))
  /\ [][/\ (PlayPressed /\ isPlaying') => lastFrameTime' = Some(now)
        /\ TickRuns =>
             /\ Integrated(IF now' - ValueOf(lastFrameTime) > MaxDeltaMs
                              THEN NominalDeltaMs
                              ELSE now' - ValueOf(lastFrameTime))
             /\ lastFrameTime' = Some(now')]_vars

\* one frame has run, MaxDeltaMs after Play, and the first object has
\* drifted by that gap, not by the nominal one
C20_Witness ==
  /\ isPlaying /\ now = MaxDeltaMs /\ Len(Sats) > 0
  /\ Sats[1].norad_id = SatA.norad_id /\ Ticked(Sats[1])
  /\ Sats[1].lng = WrapLng(SatA.lon + (SatA.mean_motion - MmPerRev) * MaxDeltaMs)
  /\ Sats[1].lng # WrapLng(SatA.lon + (SatA.mean_motion - MmPerRev) * NominalDeltaMs)

\* ---------------------------------------------------------------------
\* C21: after any tick, the orbital phase of every object that has a mean
\* motion above zero lies in [0, 2*pi): this is the statement as the
\* specification gives it, including the first tick after a refresh of an
\* object whose latitude is negative and a phase that lands on 2*pi exactly.
C21_PhaseInRange ==
  \A k \in SatIndex :
    (Moving(Sats[k]) /\ Ticked(Sats[k])) =>
      (0 <= ValueOf(Sats[k]._orbPhase) /\ ValueOf(Sats[k]._orbPhase) < TwoPi)

\* the first tick after a refresh has left the object delivered south of the
\* equator on a negative phase, next to one that started from phase 0
C21_Witness ==
  /\ \E k \in SatIndex : Moving(Sats[k]) /\ Ticked(Sats[k])
                          /\ ValueOf(Sats[k]._orbPhase) < 0
  /\ \E k \in SatIndex : Moving(Sats[k]) /\ Ticked(Sats[k])
                          /\ ValueOf(Sats[k]._orbPhase) = NominalDeltaMs * Sats[k].mean_motion

\* ---------------------------------------------------------------------
\* the index in sats of its j-th anomalous object
NthAnomaly(sats, j) ==
  CHOOSE k \in 1..Len(sats) :
    sats[k].is_anomaly /\ Cardinality({m \in 1..k : sats[m].is_anomaly}) = j

\* C22: an animation tick hands the updated collection to the markers layer,
\* rebuilds the vectors layer only when showVectors is on and leaves the rings
\* layer as it was; the rings are set by a landed refresh, from the positions
\* delivered, and by nothing else, so that every ring keeps the latitude and
\* longitude its object had at the last refresh.
C22_TickLeavesRings ==
  /\ [][TickRuns =>
          /\ pointsData' = currentData'
          /\ pathsData' = IF showVectors THEN buildPathsData(currentData', TRUE)
                                         ELSE pathsData
          /\ ringsData' = ringsData]_vars
  /\ [][RefreshLands =>
          \A j \in 1..Len(ringsData') :
            LET d == currentData'.sats[NthAnomaly(currentData'.sats, j)]
            IN  ringsData'[j].lat = d.lat /\ ringsData'[j].lng = d.lng]_vars
  /\ [][(~RefreshLands) => ringsData' = ringsData]_vars

\* while RUNNING, with the vectors off, a ticked anomalous object whose marker
\* has left the position its ring still shows
C22_Witness ==
  /\ isPlaying /\ ~showVectors
  /\ pointsData = currentData
  /\ \E j \in 1..Len(ringsData) :
        LET d == Sats[NthAnomaly(Sats, j)]
        IN  Ticked(d) /\ ringsData[j].lat # d.lat /\ ringsData[j].lng # d.lng

\* ---------------------------------------------------------------------
\* C23: in every reachable state the vectors layer is empty when showVectors
\* is off and, when showVectors is on, holds exactly one path per object of
\* the current collection, in the collection's order, made of two points
\* standing on the object's current latitude and longitude.
C23_VectorsFollowToggle ==
  IF ~showVectors
    THEN pathsData = NoPaths
    ELSE /\ Len(pathsData.paths) = Len(Sats)
         /\ pathsData.filler = currentData.filler
         /\ \A i \in SatIndex :
               /\ pathsData.paths[i].norad_id = Sats[i].norad_id
               /\ Len(pathsData.paths[i].coords) = 2
               /\ \A c \in 1..2 : /\ pathsData.paths[i].coords[c][1] = Sats[i].lat
                                   /\ pathsData.paths[i].coords[c][2] = Sats[i].lng

\* the vectors have been switched off and stay empty while a non-empty
\* collection with a selected object is being animated
C23_Witness ==
  /\ ~showVectors /\ pathsData = NoPaths
  /\ isPlaying /\ selectedSatelliteId # null
  /\ Len(Sats) > 1 /\ \E k \in SatIndex : Ticked(Sats[k])

\* ---------------------------------------------------------------------
\* C24: stopping the simulator, by Pause or by the forced stop of an
\* oversized refresh, cancels the scheduled tick: the stopping step leaves no
\* animation frame requested, none is requested while STOPPED, and from a
\* STOPPED state no step but a landing refresh changes any object's
\* latitude, longitude or phase.
C24_StopCancelsTick ==
  /\ [][(isPlaying /\ ~isPlaying') =>
          (rafPending' = {} /\ animationFrameId' = null)]_vars
  /\ [](~isPlaying => rafPending = {})
  /\ [][(~isPlaying /\ ~RefreshLands) => currentData' = currentData]_vars

\* Pause has been pressed after ticks that moved objects, and time is left
\* for the cancelled frame to have come
C24_Witness ==
  /\ ~isPlaying /\ rafPending = {}
  /\ \E k \in SatIndex : Ticked(Sats[k])
  /\ now + MaxDeltaMs <= MaxClock

\* ---------------------------------------------------------------------
\* a request of the data service is answered and its answer is displayed
ServedLands ==
  \E i \in Pending(requests) : \E data \in Serve(requests[i]) :
    FetchServed(i, data) /\ currentData' = RefreshedData(data)

\* C25: the timer issues a new request every time it comes round, whatever
\* became of the earlier attempts (failed, answered or still outstanding): it
\* has no condition, it adds its request behind the outstanding ones and
\* withdraws none.  Consequently, if from some moment on the data service
\* rejects no request any more, refreshes go on replacing the collection and
\* the status returns to Live and stays there.
C25_RefreshRecovers ==
  /\ [](ENABLED TimerFires)
  /\ [][TimerFires =>
          requests' = Append(requests, Url(currentFilter, ownerVal, typeVal))]_vars
  /\ (<>[][~RefreshFails]_vars) =>
        (<>[](statusText = "Live") /\ []<><<ServedLands>>_vars)

\* an attempt has failed, and two more requests are outstanding behind it
C25_Witness ==
  /\ statusText = "Connection lost"
  /\ Len(requests) = MaxOverlap
  /\ currentData # EmptyData

\* ---------------------------------------------------------------------
\* the tick of this step, whatever the time since the previous frame
DriftTick == isPlaying /\ \E h \in rafPending : Frame(h, now' - now)

\* (meanMotion - 1) * 360 / 86400 * deltaSeconds * 10 degrees, in longitude
\* units, for a mean motion in hundredths of a revolution per day and a
\* deltaSeconds of deltaMs / 1000
ClaimedDrift(mm, deltaMs) ==
  ((((mm - MmPerRev) * ((360 * LngPerDeg) \div 86400)) \div MmPerRev)
     * deltaMs * ORBIT_SPEED_FACTOR) \div 1000

\* C26 as stated: a tick whose deltaSeconds, the time since the previous
\* frame, is 1 advances the longitude of an object of mean motion 15 by 7/12
\* degree before wrapping, and in general a tick changes the longitude by
\* (meanMotion - 1) * 360 / 86400 * deltaSeconds * 10.
C26_DriftOfElapsedSecond ==
  [][DriftTick =>
       \A k \in SatIndex :
         LET d       == Sats[k]
             elapsed == now' - ValueOf(lastFrameTime)
         IN  /\ Moving(d) =>
                  currentData'.sats[k].lng = WrapLng(d.lng + ClaimedDrift(d.mean_motion, elapsed))
             /\ (d.mean_motion = 15 * MmPerRev /\ elapsed = 1000) =>
                  currentData'.sats[k].lng = WrapLng(d.lng + (7 * LngPerDeg) \div 12)]_vars

\* C26 amended: a tick changes the longitude of an object with orbital data
\* by (meanMotion - 1) * 360 / 86400 * deltaSeconds * 10 before wrapping,
\* deltaSeconds being the step the tick integrates: the time since the
\* previous frame if that is at most 0.5 s, 0.016 s otherwise.  For mean
\* motion 15 that is 7/24 degree for the longest step 0.5 s, and 7/750
\* degree for a tick that comes one second after the previous frame.  The
\* change is zero for mean motion 1 and westward for a mean motion between
\* 0 and 1.
C26_DriftOfIntegratedStep ==
  [][DriftTick =>
       \A k \in SatIndex :
         LET d       == Sats[k]
             elapsed == now' - ValueOf(lastFrameTime)
             step    == IF elapsed > MaxDeltaMs THEN NominalDeltaMs ELSE elapsed
             lng     == currentData'.sats[k].lng
         IN  /\ Moving(d) => lng = WrapLng(d.lng + ClaimedDrift(d.mean_motion, step))
             /\ (d.mean_motion = 15 * MmPerRev /\ elapsed = MaxDeltaMs) =>
                  lng = WrapLng(d.lng + (7 * LngPerDeg) \div 24)
             /\ (d.mean_motion = 15 * MmPerRev /\ elapsed = 1000) =>
                  lng = WrapLng(d.lng + (7 * LngPerDeg) \div 750)
             /\ d.mean_motion = MmPerRev => lng = d.lng
             /\ (0 < d.mean_motion /\ d.mean_motion < MmPerRev) =>
                  (ClaimedDrift(d.mean_motion, step) < 0
                     /\ (d.lng + ClaimedDrift(d.mean_motion, step) >= 0 - Lng180 => lng < d.lng))]_vars

\* the first tick came a whole second after Play: the object of mean motion
\* 15 delivered on the prime meridian stands 7/750 degree east of it, the
\* one of mean motion 1 has not moved, the one of mean motion 1/2 went west
C26_Witness ==
  /\ now = 1000 /\ Len(Sats) = 3
  /\ \A k \in SatIndex : Ticked(Sats[k])
  /\ \E k \in SatIndex : Sats[k].mean_motion = 15 * MmPerRev
                          /\ Sats[k].lng = (7 * LngPerDeg) \div 750
  /\ \E k \in SatIndex : Sats[k].mean_motion = MmPerRev /\ Sats[k].lng = 0
  /\ \E k \in SatIndex : Sats[k].mean_motion = MmPerRev \div 2 /\ Sats[k].lng < 0

\* ---------------------------------------------------------------------
\* C27: a click on a side-panel entry is the same transition as a click on
\* the marker of the object the entry stands for: the selection becomes the
\* entry's id, the markers are drawn with that object highlighted, the lookup
\* is issued for its name, and the camera is sent to the position the object
\* has now, ticks since the panel was built included.
C27_PanelClickIsMarkerClick ==
  [][\A j \in 1..Len(anomaliesList) :
       PanelClick(j) =>
         \E i \in 1..Len(pointsData.sats) :
           /\ pointsData.sats[i].norad_id = anomaliesList[j].norad_id
           /\ PointClick(i)]_vars

\* a panel entry has been clicked after ticks moved its object: the object
\* is selected, its lookup is out, and the camera has been sent to a place
\* the object has left
C27_Witness ==
  /\ IsDefined(pointOfView) /\ lookups # <<>>
  /\ \E k \in SatIndex :
        /\ Sats[k].norad_id = selectedSatelliteId /\ Ticked(Sats[k])
        /\ ValueOf(pointOfView).lng # Sats[k].lng
        /\ \E j \in 1..Len(anomaliesList) :
              /\ anomaliesList[j].norad_id = selectedSatelliteId
              /\ ValueOf(pointOfView).lng = anomaliesList[j].lng

\* ---------------------------------------------------------------------
\* the step sends a request
RequestSent == Len(requests') = Len(requests) + 1

\* the parameters of url whose key is key
ParamsOf(url, key) == {i \in 1..Len(url) : url[i][1] = key}

\* C28: the orbit-class filter is ALL at first and at all times one of ALL,
\* LEO, MEO, GEO, ANOMALIES, TOP10, a click on a filter button putting its
\* value in the place of the previous one; every request sent carries the
\* filter of that moment as filter_type, an owner parameter if and only if
\* the owner filter is not empty and an object_type parameter if and only if
\* the object-type filter is not empty, each with the filter's value, and
\* nothing else; an edit of the owner or object-type filter leaves the
\* orbit-class filter as it was.
C28_FilterAndQuery ==
  /\ currentFilter = "ALL"
  /\ [](currentFilter \in {"ALL", "LEO", "MEO", "GEO", "ANOMALIES", "TOP10"})
  /\ [][\A f \in Filters : FilterClick(f) => currentFilter' = f]_vars
  /\ [][RequestSent =>
          LET url == requests'[Len(requests')]
          IN  /\ requests' = Append(requests, url)
              /\ Cardinality(ParamsOf(url, "filter_type")) = 1
              /\ \A i \in ParamsOf(url, "filter_type") : url[i][2] = currentFilter'
              /\ Cardinality(ParamsOf(url, "owner")) = IF ownerVal' # "" THEN 1 ELSE 0
              /\ \A i \in ParamsOf(url, "owner") : url[i][2] = ownerVal'
              /\ Cardinality(ParamsOf(url, "object_type")) = IF typeVal' # "" THEN 1 ELSE 0
              /\ \A i \in ParamsOf(url, "object_type") : url[i][2] = typeVal'
              /\ \A i \in 1..Len(url) :
                    url[i][1] \in {"filter_type", "owner", "object_type"}]_vars
  /\ [][((\E o \in Owners : OwnerChange(o)) \/ (\E t \in Types : TypeChange(t))) =>
          currentFilter' = currentFilter]_vars

\* the newest request carries TOP10 with an owner and no object type, behind
\* one that was sent with the owner empty and an object type
C28_Witness ==
  /\ currentFilter = "TOP10" /\ ownerVal = "US" /\ typeVal = ""
  /\ Len(requests) = 2
  /\ requests[2] = << <<"filter_type", "TOP10">>, <<"owner", "US">> >>
  /\ ParamsOf(requests[1], "owner") = {} /\ ParamsOf(requests[1], "object_type") # {}

\* ---------------------------------------------------------------------
\* C29: in every reachable state, the simulator being RUNNING implies that
\* the collection holds strictly fewer than 3000 objects, whatever the
\* interleaving of Play and Pause presses and of refreshes that succeed or
\* fail.
C29_RunningBelowCeiling ==
  isPlaying => DataLength(currentData) < MaxAnimated

\* the simulator is RUNNING, a tick pending, over a collection of 3000
\* objects or more that a refresh put in place
C29_Witness ==
  /\ isPlaying /\ rafPending # {}
  /\ DataLength(currentData) >= MaxAnimated
  /\ pointsData = currentData

\* ---------------------------------------------------------------------
\* C30: there is a single animation loop: in every reachable state exactly
\* one animation frame is requested when the simulator is RUNNING, the one
\* whose handle animationFrameId holds, and none when it is STOPPED; and a
\* tick leaves exactly one frame requested, so that no sequence of Play,
\* Pause, rejected Play, forced stop and refresh leaves two chains of ticks
\* or a RUNNING simulator without a tick to come.
C30_SingleLoop ==
  /\ [](IF isPlaying
          THEN rafPending = {animationFrameId} /\ animationFrameId # null
          ELSE rafPending = {} /\ animationFrameId = null)
  /\ [][TickRuns => (isPlaying' /\ Cardinality(rafPending') = 1)]_vars

\* the loop is running, one frame requested, after two ticks a second apart
\* in all and a refresh that failed
C30_Witness ==
  /\ isPlaying /\ Cardinality(rafPending) = 1
  /\ statusText = "Connection lost"
  /\ \E k \in SatIndex : Ticked(Sats[k])
  /\ now = 2 * MaxDeltaMs

\* ---------------------------------------------------------------------
\* C31: a refresh that lands changes neither the selection, nor the filter
\* state, nor the showVectors toggle; when the collection it delivers holds
\* fewer than 3000 objects it leaves the simulator (RUNNING or STOPPED, the
\* last-frame time) and the frame requested as they were; and the markers
\* drawn as selected after it are exactly those of the delivered collection
\* that carry the selected id.
C31_RefreshKeepsControls ==
  [][RefreshLands =>
       /\ selectedSatelliteId' = selectedSatelliteId
       /\ filterVars' = filterVars
       /\ showVectors' = showVectors
       /\ DataLength(currentData') < MaxAnimated => simVars' = simVars
       /\ Len(pointsPaint') = Len(currentData'.sats)
       /\ \A i \in 1..Len(currentData'.sats) :
             (pointsPaint'[i] = SelectedPoint) <=>
               (currentData'.sats[i].norad_id = selectedSatelliteId)]_vars

\* a refresh has landed on a running simulator after a tick (the phases are
\* gone, the last frame ran at the present time): the simulator still runs,
\* its frame requested, and the selected object, delivered again, is the one
\* marker drawn as selected
C31_Witness ==
  /\ isPlaying /\ rafPending # {} /\ now > 0 /\ lastFrameTime = Some(now)
  /\ statusText = "Live" /\ ~showVectors
  /\ Len(Sats) > 1 /\ \A k \in SatIndex : ~Ticked(Sats[k])
  /\ \E k \in SatIndex : Sats[k].norad_id = selectedSatelliteId /\ Highlighted = {k}

\* ---------------------------------------------------------------------
\* the collection is one the service gives under the present filter state
FetchedUnderCurrentFilter ==
  \E data \in Serve(Url(currentFilter, ownerVal, typeVal)) :
    currentData = RefreshedData(data)

\* every request in flight was built from the present filter state
NoOlderRequest ==
  \A i \in 1..Len(requests) : requests[i] = Url(currentFilter, ownerVal, typeVal)

\* C32: if from some moment on the filter state is not edited and no request
\* is rejected, then from some later moment on the collection is one fetched
\* under the present filter state, for ever; and once no request built
\* before the last edit is in flight, a collection fetched under the present
\* filter state stays so as long as the filter state is not edited.
C32_SettlesOnCurrentFilter ==
  /\ ((<>[][filterVars' = filterVars]_vars) /\ (<>[][~RefreshFails]_vars)) =>
        <>[]FetchedUnderCurrentFilter
  /\ [][(NoOlderRequest /\ FetchedUnderCurrentFilter /\ filterVars' = filterVars) =>
          FetchedUnderCurrentFilter']_vars

\* the orbit class and the owner have been edited, every request has been
\* answered, and the collection is the one of the present filter state, not
\* the one of the start
C32_Witness ==
  /\ currentFilter = "LEO" /\ ownerVal = "US"
  /\ requests = <<>> /\ statusText = "Live"
  /\ FetchedUnderCurrentFilter
  /\ \A data \in Serve(Url("ALL", "", "")) : currentData # RefreshedData(data)

\* ---------------------------------------------------------------------
\* C33: whenever showVectors is on, the i-th vector is the vector of the
\* i-th object of the collection as it is now: its base stands on the
\* object's present latitude and longitude at altitude 0, its top on the
\* same latitude and longitude at the object's visual altitude.
C33_VectorsOnMarkers ==
  showVectors =>
    /\ Len(pathsData.paths) = Len(Sats)
    /\ \A i \in SatIndex :
          pathsData.paths[i].coords =
            << <<Sats[i].lat, Sats[i].lng, Some(0)>>,
               <<Sats[i].lat, Sats[i].lng, visualAltitude(Sats[i].altitude)>> >>

\* the vectors are on over a running simulator, two ticks have moved the
\* objects off the places the rings still show, and an object is selected
C33_Witness ==
  /\ showVectors /\ isPlaying /\ now = 2 * MaxDeltaMs
  /\ selectedSatelliteId \in IdsOf(Sats)
  /\ Len(pathsData.paths) > 1
  /\ \E j \in 1..Len(ringsData) :
        LET d == Sats[NthAnomaly(Sats, j)]
        IN  Ticked(d) /\ ringsData[j].lng # d.lng
              /\ \E i \in SatIndex : pathsData.paths[i].coords[1][2] = d.lng

\* ---------------------------------------------------------------------
\* a refresh lands with one of the responses of the drift feed
DriftRefreshLands ==
  \E i \in Pending(requests) : \E data \in DriftResponses : FetchSucceeds(i, data)

\* C34: time spent STOPPED contributes no motion.  No last-frame time is
\* kept while STOPPED (Pause resets it), an accepted Play records the time
\* of the press, and every tick integrates the time since the last-frame
\* time (the nominal step when that exceeds 0.5 s), so that the first tick
\* after a resume integrates the time since the Play press and none of the
\* pause; and from a STOPPED state no step but a landing refresh, the
\* passing of time and the Play press included, changes any object's
\* position or phase.
C34_PauseAddsNoMotion ==
  /\ [](IF isPlaying THEN IsDefined(lastFrameTime) /\ ValueOf(lastFrameTime) <= now
                     ELSE lastFrameTime = Undefined)
  /\ [][(PlayPressed /\ isPlaying') => (lastFrameTime' = Some(now) /\ now' = now)]_vars
  /\ [][DriftTick =>
          Integrated(ClampDelta(now' - ValueOf(lastFrameTime)))]_vars
  /\ [][(~isPlaying /\ ~DriftRefreshLands) => currentData' = currentData]_vars

\* three quarters of a second after the start the simulator runs, and the
\* object of mean motion 15 delivered on the prime meridian has the phase
\* and the longitude of half a second of motion: a quarter of a second went
\* by while STOPPED
C34_Witness ==
  /\ isPlaying /\ now = 3 * (MaxDeltaMs \div 2)
  /\ lastFrameTime = Some(now)
  /\ \E k \in SatIndex :
        /\ Sats[k].mean_motion = 15 * MmPerRev
        /\ Sats[k]._orbPhase = Some(15 * MmPerRev * MaxDeltaMs)
        /\ Sats[k].lng = ClaimedDrift(15 * MmPerRev, MaxDeltaMs)

\* ---------------------------------------------------------------------
\* the absolute value
Abs(x) == IF x < 0 THEN 0 - x ELSE x

\* C35: for every tick the step integrated lies in [0, 0.5 s]: frame
\* timestamps not running backwards, it is the time since the last-frame time
\* when that is at most 0.5 s and 0.016 s when it is more, so that a tick
\* changes the longitude of an object (before wrapping) by at most its drift
\* rate times 0.5 s times the speed factor, and its phase by at most its
\* angular rate times 0.5 s times the speed factor.
C35_StepWithinHalfSecond ==
  [][DriftTick =>
       LET elapsed == now' - ValueOf(lastFrameTime)
       IN  /\ elapsed >= 0
           /\ \E step \in 0..MaxDeltaMs :
                 /\ Integrated(step)
                 /\ step = IF elapsed > MaxDeltaMs THEN NominalDeltaMs ELSE elapsed
           /\ \A k \in SatIndex :
                 LET d  == Sats[k]
                     e  == currentData'.sats[k]
                     p0 == IF Ticked(d) THEN ValueOf(d._orbPhase) ELSE InitPhase(d)
                 IN  Moving(d) =>
                       /\ \E w \in {0 - Lng360, 0, Lng360} :
                             Abs(e.lng - d.lng + w) <=
                               Abs(ClaimedDrift(d.mean_motion, MaxDeltaMs))
                       /\ \E w \in {0, TwoPi} :
                             /\ 0 <= ValueOf(e._orbPhase) - p0 + w
                             /\ ValueOf(e._orbPhase) - p0 + w <= d.mean_motion * MaxDeltaMs]_vars

\* a tick integrated exactly half a second: the object of
\* mean motion 15, delivered just west of +180, has moved by the whole of
\* its bound, across the meridian
C35_Witness ==
  /\ isPlaying /\ lastFrameTime = Some(now) /\ now >= MaxDeltaMs
  /\ \E k \in SatIndex :
        /\ Sats[k].mean_motion = 15 * MmPerRev
        /\ Sats[k]._orbPhase = Some(15 * MmPerRev * MaxDeltaMs)
        /\ Sats[k].lng = Lng180 - 10000 + ClaimedDrift(15 * MmPerRev, MaxDeltaMs) - Lng360

\* a step of handleSatelliteClick, from a marker or from a panel entry
SelectStep ==
  \/ \E i \in 1..Len(pointsData.sats) : PointClick(i)
  \/ \E j \in 1..Len(anomaliesList) : PanelClick(j)

\* C36: the overlay becomes visible only in a step of select(), never in
\* the completion of a lookup: once clear() has hidden it and nulled the
\* selection, a lookup still in flight completes without showing the
\* overlay and without restoring the selection, and the overlay stays
\* hidden until the next select().
C36_OverlayShownOnlyBySelect ==
  /\ [][WikiClose => (wikiModal' = "none" /\ selectedSatelliteId' = null)]_vars
  /\ [][(wikiModal = "none" /\ wikiModal' = "block") => SelectStep]_vars
  /\ [][(wikiModal = "none" /\ LookupDone)
          => (wikiModal' = "none" /\ selectedSatelliteId' = selectedSatelliteId)]_vars
  /\ [][(wikiModal = "none" /\ selectedSatelliteId = null /\ ~SelectStep)
          => (wikiModal' = "none" /\ selectedSatelliteId' = null)]_vars

\* two lookups were started, the overlay was closed, and a response has been
\* written to the hidden overlay while the other lookup is still in flight
C36_Witness ==
  /\ wikiModal = "none" /\ selectedSatelliteId = null
  /\ Len(lookups) = 1 /\ wikiContent # Content("loading", <<>>)
  /\ Len(pointsData.sats) > 0

\* every object's catalogue number, position and phase, in collection order
Motion(data) ==
  [k \in 1..Len(data.sats) |->
     <<data.sats[k].norad_id, data.sats[k].lat, data.sats[k].lng, data.sats[k]._orbPhase>>]

\* a Play press the capacity guard turns down
PlayRejected == Play /\ ~isPlaying /\ ~isPlaying'

\* C37: while the simulator is STOPPED an object's latitude and longitude
\* change only in a step in which a refresh lands: a vector toggle, a
\* selection, a clear, a rejected Play press, a failed refresh and the
\* completion of a lookup leave the position and the phase of every object
\* as they were.
C37_StoppedMovesOnlyOnRefresh ==
  /\ [][(~isPlaying /\ Motion(currentData') # Motion(currentData)) => RefreshLands]_vars
  /\ [][(~isPlaying /\ (\/ ToggleVectors
                        \/ SelectStep
                        \/ WikiClose
                        \/ PlayRejected
                        \/ RefreshFails
                        \/ LookupDone))
          => Motion(currentData') = Motion(currentData)]_vars

\* the simulator is STOPPED, an object that was animated before the pause
\* has just been selected and the camera sent to it
C37_Witness ==
  /\ ~isPlaying
  /\ IsDefined(pointOfView)
  /\ \E k \in SatIndex : Ticked(Sats[k]) /\ Sats[k].norad_id = selectedSatelliteId

====
